---- MODULE Spec2Model ----
(***************************************************************************)
(* Desktop audio/video capture: the session coordinators and the capture   *)
(* engines of lib/capture_win, modelled as state machines.                 *)
(*                                                                         *)
(*   Spec        MediaCaptureClient + AudioCaptureImpl + VideoCaptureImpl  *)
(*               driven by concurrent host threads                         *)
(*   FairSpec    the same, under fair scheduling of threads and calls      *)
(*   SpecWin     MediaCaptureWin, the class behind the exported            *)
(*               startMediaCapture / stopMediaCapture                      *)
(*   FairSpecLegacy  AudioCaptureClient (captureclient.cc), the audio-only *)
(*               client behind startCapture / stopCapture                  *)
(*   SpecVideoEng, FairSpecVideoEng  one VideoCaptureImpl with the clock   *)
(*               its frame pacing reads                                    *)
(*   SpecAudioEng    one AudioCaptureImpl and the handles it holds         *)
(*   SpecPacket  the conversion of one audio packet to the target format   *)
(*   SpecFrame   one captured video frame handed to the video callback     *)
(*   SpecTarget  the capture target resolved from the selectors of a config*)
(*   SpecHandoff the frames of the engines queued for the JavaScript thread*)
(*   SpecWindow  one window passed through the window enumeration          *)
(*   SpecDrain   one wake-up of an audio thread and the packets it drains  *)
(*   SpecTimeout the frame-acquisition timeout computed from a frame rate  *)
(*   SpecPlatform    COM initialisation and Direct3D device setup          *)
(*   SpecBinding the N-API binding: StartCapture, StopCapture, exit callback*)
(*   SpecReentrant, FairSpecReentrant  stop()/start() from a callback       *)
(*   SpecDevice  GetBuffer/ReleaseBuffer and AcquireNextFrame/ReleaseFrame  *)
(***************************************************************************)
EXTENDS Integers, Sequences, FiniteSets, TLC

\* ------------------------------------------------------------------ bounds
\* host threads that call startCapture / stopCapture on one session
NumCallers == 2
\* packets the audio device can have pending at once
MaxPackets == 2
\* the exit-callback counter of an engine instance saturates here
ExitCap == 2

Callers == 1..NumCallers

VARIABLES
  \* MediaCaptureClient (mediacaptureclient.h:134-148)
  isCapturing, captureMutex, audioImpl, videoImpl,
  \* host threads inside startCapture / stopCapture
  pc, call,
  \* capture threads and the audio device
  aPc, vPc, devPackets,
  \* observation: the callback fired and the value returned by the last step
  event, lastRet, barrier

clientVars == <<isCapturing, captureMutex, audioImpl, videoImpl, pc, call,
                aPc, vPc, devPackets, event, lastRet, barrier>>

VARIABLES
  \* MediaCaptureWin (MediaCaptureWin.h:17-27)
  win_captureInProgress, win_captureThread, win_captureMutex, win_callbacks,
  \* the std::thread objects it has created, and the host threads inside its calls
  win_threads, win_pc, win_local,
  \* observation: the callback fired or the value returned by the last step
  win_event

winVars == <<win_captureInProgress, win_captureThread, win_captureMutex,
             win_callbacks, win_threads, win_pc, win_local, win_event>>

VARIABLES
  \* AudioCaptureClient (captureclient.h:19-44)
  legacy_captureInProgress, legacy_hEvent, legacy_audioRetrievalThread,
  legacy_held, legacy_cc,
  \* its worker thread, its device stream and the host thread inside its calls
  legacy_worker, legacy_packets, legacy_pc,
  \* observation: the callback fired by the last step
  legacy_event

legacyVars == <<legacy_captureInProgress, legacy_hEvent, legacy_audioRetrievalThread,
                legacy_held, legacy_cc, legacy_worker, legacy_packets, legacy_pc,
                legacy_event>>

\* the capture engines driven on their own: a VideoCaptureImpl with its clock
\* (milliseconds), an AudioCaptureImpl with its handles, and one audio packet
\* on its way through the conversion of AudioCaptureImpl::captureThreadProc
VARIABLES ve_host, ve_isCapturing, ve_held, ve_thread, ve_frameRate,
          ve_frameInterval, ve_now, ve_lastFrameTime,
          ve_lastSuccessfulFrameTime, ve_source, ve_work, ve_encoder,
          ve_obs

videoEngVars == <<ve_host, ve_isCapturing, ve_held, ve_thread, ve_frameRate,
                  ve_frameInterval, ve_now, ve_lastFrameTime,
                  ve_lastSuccessfulFrameTime, ve_source, ve_work, ve_encoder,
                  ve_obs>>

VARIABLES ae_impl, ae_life, ae_last, ae_freed

audioEngVars == <<ae_impl, ae_life, ae_last, ae_freed>>

VARIABLES pk_in, pk_out

packetVars == <<pk_in, pk_out>>

\* one captured video frame on its way to videoCallback
VARIABLES fr_config, fr_frame, fr_out

frameVars == <<fr_config, fr_frame, fr_out>>

\* the capture target of one session being resolved
VARIABLES tg_config, tg_out

targetVars == <<tg_config, tg_out>>

\* the hand-off of frames from the engine threads to the JavaScript consumer
VARIABLES hq_isCapturing, hq_captured, hq_queue, hq_emitted

handoffVars == <<hq_isCapturing, hq_captured, hq_queue, hq_emitted>>

\* one top-level window offered to the window enumeration
VARIABLES wn_window, wn_out

windowVars == <<wn_window, wn_out>>

\* one wake-up of an audio capture thread and the packets it finds pending
VARIABLES dr_engine, dr_resample, dr_pending, dr_pc, dr_calls

drainVars == <<dr_engine, dr_resample, dr_pending, dr_pc, dr_calls>>

\* the acquisition timeout of one configured frame rate
VARIABLES tm_rate, tm_out

timeoutVars == <<tm_rate, tm_out>>

earlyUnitVars == <<frameVars, targetVars, handoffVars, windowVars, drainVars,
                   timeoutVars>>

\* COM on each thread, the COM calls each engine has made, and one instance
\* of each engine with the Direct3D device it set up
VARIABLES pf_com, pf_calls, pf_video, pf_audio, pf_win

platformVars == <<pf_com, pf_calls, pf_video, pf_audio, pf_win>>

\* the binding (MediaCapture), its stop promise, and the capture thread of the
\* native session behind its handle
VARIABLES bd_session, bd_isCapturing, bd_tsfn, bd_context, bd_promise, bd_js,
          bd_inProgress, bd_thread, bd_starts

bindingVars == <<bd_session, bd_isCapturing, bd_tsfn, bd_context, bd_promise,
                 bd_js, bd_inProgress, bd_thread, bd_starts>>

VARIABLES rn_kind, rn_on, rn_isCapturing, rn_mutex, rn_thread, rn_cb, rn_op,
          rn_peer, rn_host, rn_calls

reentrantVars == <<rn_kind, rn_on, rn_isCapturing, rn_mutex, rn_thread, rn_cb, rn_op,
                   rn_peer, rn_host, rn_calls>>

VARIABLES dv_isCapturing, dv_audio, dv_video, dv_screen

deviceVars == <<dv_isCapturing, dv_audio, dv_video, dv_screen>>

lateVars == <<platformVars, bindingVars, reentrantVars, deviceVars>>

unitVars == <<earlyUnitVars, lateVars, bindingVars, reentrantVars, deviceVars>>

engVars == <<videoEngVars, audioEngVars, packetVars, unitVars>>

vars == <<clientVars, winVars, legacyVars, engVars>>

\* ------------------------------------------------------------ configuration
\* MediaCaptureConfigC (capture.h): the fields start() reads
Configs ==
  [audioChannels : {0, 1, 2, 3}, audioSampleRate : {0, 48000},
   displayID : {0, 1}, windowID : {0, 101}]

NoConfig == [audioChannels |-> 0, audioSampleRate |-> 0, displayID |-> 0, windowID |-> 0]

NoCall ==
  [op |-> "none", config |-> NoConfig, videoCallback |-> FALSE,
   audioCallback |-> FALSE, stopCallback |-> FALSE,
   audioResult |-> TRUE, videoResult |-> TRUE,
   audioStarted |-> FALSE, videoStarted |-> FALSE]

\* ------------------------------------------------------------- audio engine
\* AudioCaptureImpl::AudioCaptureImpl
NewAudio ==
  [exists |-> TRUE, isCapturing |-> FALSE, hEvent |-> "NULL",
   captureThread |-> FALSE, held |-> {}, exits |-> 0]

\* an empty std::unique_ptr<AudioCaptureImpl>
NullAudio == [NewAudio EXCEPT !.exists = FALSE]

\* the platform calls of AudioCaptureImpl::start, in order, with the member
\* each one fills on success and the members it releases
AudioSteps ==
  << [name |-> "com",            acquires |-> {},                      releases |-> {}],
     [name |-> "src_new",        acquires |-> {"sampleRateConverter"}, releases |-> {}],
     [name |-> "enumerator",     acquires |-> {"enumerator"},          releases |-> {}],
     [name |-> "endpoint",       acquires |-> {"device"},              releases |-> {"enumerator"}],
     [name |-> "activate",       acquires |-> {"audioClient"},         releases |-> {}],
     [name |-> "mixformat",      acquires |-> {"format"},              releases |-> {}],
     [name |-> "formatIsValid",  acquires |-> {},                      releases |-> {}],
     [name |-> "CreateEvent",    acquires |-> {"hEvent"},              releases |-> {}],
     [name |-> "Initialize",     acquires |-> {},                      releases |-> {}],
     [name |-> "SetEventHandle", acquires |-> {},                      releases |-> {}],
     [name |-> "GetService",     acquires |-> {"captureClient"},       releases |-> {}],
     [name |-> "Start",          acquires |-> {},                      releases |-> {}] >>

AudioFailures == {AudioSteps[i].name : i \in 1..Len(AudioSteps)}

\* members filled once the first k platform calls have succeeded
RECURSIVE AudioHeldAfter(_)
AudioHeldAfter(k) ==
  IF k = 0 THEN {}
  ELSE (AudioHeldAfter(k - 1) \cup AudioSteps[k].acquires) \ AudioSteps[k].releases

AudioStepIndex(name) == CHOOSE i \in 1..Len(AudioSteps) : AudioSteps[i].name = name

\* audiocaptureimpl.cc:49,57
AudioConfigValid(config) ==
  /\ ~(config.audioChannels <= 0 \/ config.audioChannels > 2)
  /\ ~(config.audioSampleRate <= 0)

\* AudioCaptureImpl::start on a fresh instance: fail names the platform call
\* that fails, "none" when all succeed.  Every failure path invokes the exit
\* callback once and returns false; nothing acquired so far is released.
AudioStart(config, fail) ==
  IF ~AudioConfigValid(config)
    THEN [impl |-> [NewAudio EXCEPT !.exits = 1], result |-> FALSE]
  ELSE IF fail # "none"
    THEN LET h == AudioHeldAfter(AudioStepIndex(fail) - 1) IN
         [impl |-> [NewAudio EXCEPT !.held = h \ {"hEvent"},
                                    !.hEvent = IF "hEvent" \in h THEN "nonsignaled" ELSE "NULL",
                                    !.exits = 1],
          result |-> FALSE]
  ELSE LET h == AudioHeldAfter(Len(AudioSteps)) IN
       [impl |-> [NewAudio EXCEPT !.held = h \ {"hEvent"},
                                  !.hEvent = "nonsignaled",
                                  !.isCapturing = TRUE,
                                  !.captureThread = TRUE],
        result |-> TRUE]

\* ------------------------------------------------------------- video engine
\* VideoCaptureImpl::VideoCaptureImpl
NewVideo ==
  [exists |-> TRUE, isCapturing |-> FALSE, captureThread |-> FALSE,
   held |-> {}, exits |-> 0]

NullVideo == [NewVideo EXCEPT !.exists = FALSE]

VideoHandles == {"device", "context", "duplication", "stagingTexture"}

\* the points at which VideoCaptureImpl::start fails
VideoFailures ==
  {"com", "d3d11", "dxgiDevice", "adapter", "output", "desc", "output1",
   "duplicate", "texture"}

\* VideoCaptureImpl::start on a fresh instance.  A setupD3D11 failure holds
\* nothing; a setupDuplication failure runs cleanup(), which releases all.
VideoStart(fail) ==
  IF fail # "none"
    THEN [impl |-> [NewVideo EXCEPT !.exits = 1], result |-> FALSE]
    ELSE [impl |-> [NewVideo EXCEPT !.held = VideoHandles,
                                    !.isCapturing = TRUE,
                                    !.captureThread = TRUE],
          result |-> TRUE]

\* --------------------------------------------------------------- the binding
\* MediaCapture::SafeShutdown: was_capturing = isCapturing_.exchange(false);
\* the native stop is issued only when was_capturing
SafeShutdown(flag) == [stops |-> flag, flag |-> FALSE]

\* MediaCapture::ExitCallback: isCapturing_.exchange(false), then SafeShutdown()
ExitCallback(flag) == SafeShutdown(FALSE)

\* ------------------------------------------------------------------ helpers
Bump(n) == IF n < ExitCap THEN n + 1 ELSE ExitCap

\* std::lock_guard<std::mutex> lock(captureMutex)
LockAvailable(m) == m = 0

\* a join that does not wait for the thread
JoinReturns_nowait(threadPc) == TRUE

\* std::thread::join returns once the thread function has returned
JoinReturns(threadPc) == threadPc \in {"none", "done"}

Quiet == event' = "none" /\ lastRet' = "none"

ClientInit ==
  /\ isCapturing = FALSE
  /\ captureMutex = 0
  /\ audioImpl = NewAudio
  /\ videoImpl = NullVideo
  /\ pc = [c \in Callers |-> "idle"]
  /\ call = [c \in Callers |-> NoCall]
  /\ aPc = "none"
  /\ vPc = "none"
  /\ devPackets = 0
  /\ event = "none"
  /\ lastRet = "none"
  /\ barrier = FALSE


\* ------------------------------------------- MediaCaptureClient::startCapture
\* the call and its std::lock_guard; the arguments are fixed here
startCapture_lock(c) ==
  /\ pc[c] = "idle"
  /\ LockAvailable(captureMutex)
  /\ \E config \in Configs, v \in BOOLEAN, a \in BOOLEAN :
       call' = [call EXCEPT ![c] = [NoCall EXCEPT !.op = "start", !.config = config,
                                                  !.videoCallback = v, !.audioCallback = a]]
  /\ captureMutex' = c
  /\ pc' = [pc EXCEPT ![c] = "start_check"]
  /\ Quiet
  /\ UNCHANGED <<isCapturing, audioImpl, videoImpl, aPc, vPc, devPackets, barrier>>
  /\ UNCHANGED <<winVars, legacyVars, engVars>>

\* the guard dropped: every start() goes on to build its engines
AlreadyRunning_ignored(flag) == FALSE

\* if (isCapturing.load())
AlreadyRunning(flag) == flag

\* "Capture already in progress": exit callback, return false
startCapture_check(c) ==
  /\ pc[c] = "start_check"
  /\ IF AlreadyRunning(isCapturing)
       THEN /\ event' = "exitAlready"
            /\ lastRet' = "false"
            /\ captureMutex' = 0
            /\ pc' = [pc EXCEPT ![c] = "idle"]
            /\ call' = [call EXCEPT ![c] = NoCall]
       ELSE /\ Quiet
            /\ pc' = [pc EXCEPT ![c] = "start_audio"]
            /\ UNCHANGED <<captureMutex, call>>
  /\ UNCHANGED <<isCapturing, audioImpl, videoImpl, aPc, vPc, devPackets, barrier>>
  /\ UNCHANGED <<winVars, legacyVars, engVars>>

\* if (audioCallback) { audioImpl = make_unique; audioResult = audioImpl->start }
startCapture_audio(c) ==
  /\ pc[c] = "start_audio"
  /\ IF call[c].audioCallback
       THEN \E fail \in AudioFailures \cup {"none"} :
              LET r == AudioStart(call[c].config, fail) IN
                /\ audioImpl' = r.impl
                /\ call' = [call EXCEPT ![c].audioResult = r.result,
                                        ![c].audioStarted = r.result]
                /\ aPc' = IF r.result THEN "top" ELSE "none"
                /\ devPackets' = 0
                /\ event' = IF r.result THEN "none" ELSE "exitAudio"
                /\ barrier' = IF r.result THEN FALSE ELSE barrier
       ELSE /\ event' = "none"
            /\ UNCHANGED <<audioImpl, call, aPc, devPackets, barrier>>
  /\ lastRet' = "none"
  /\ pc' = [pc EXCEPT ![c] = "start_video"]
  /\ UNCHANGED <<isCapturing, captureMutex, videoImpl, vPc>>
  /\ UNCHANGED <<winVars, legacyVars, engVars>>

\* if (videoCallback && (displayID > 0 || windowID > 0)) { try { ... } catch }
startCapture_video(c) ==
  /\ pc[c] = "start_video"
  /\ IF call[c].videoCallback /\ (call[c].config.displayID > 0 \/ call[c].config.windowID > 0)
       THEN \/ \E fail \in VideoFailures \cup {"none"} :
                 LET r == VideoStart(fail) IN
                   /\ videoImpl' = r.impl
                   /\ call' = [call EXCEPT ![c].videoResult = r.result,
                                           ![c].videoStarted = r.result]
                   /\ vPc' = IF r.result THEN "top" ELSE "none"
                   /\ event' = IF r.result THEN "none" ELSE "exitVideo"
                   /\ barrier' = IF r.result THEN FALSE ELSE barrier
            \/ \* make_unique throws: caught, videoResult = false, exit callback
               /\ call' = [call EXCEPT ![c].videoResult = FALSE]
               /\ event' = "exitVideo"
               /\ UNCHANGED <<videoImpl, vPc, barrier>>
       ELSE /\ event' = "none"
            /\ UNCHANGED <<videoImpl, call, vPc, barrier>>
  /\ lastRet' = "none"
  /\ pc' = [pc EXCEPT ![c] = "start_finish"]
  /\ UNCHANGED <<isCapturing, captureMutex, audioImpl, aPc, devPackets>>
  /\ UNCHANGED <<winVars, legacyVars, engVars>>

\* if (audioResult || videoResult) { isCapturing.store(true); return true; } return false;
StartSucceeds(audioResult, videoResult) == audioResult \/ videoResult

startCapture_finish(c) ==
  /\ pc[c] = "start_finish"
  /\ IF StartSucceeds(call[c].audioResult, call[c].videoResult)
       THEN isCapturing' = TRUE /\ lastRet' = "true"
       ELSE isCapturing' = isCapturing /\ lastRet' = "false"
  /\ event' = "none"
  /\ captureMutex' = 0
  /\ pc' = [pc EXCEPT ![c] = "idle"]
  /\ call' = [call EXCEPT ![c] = NoCall]
  /\ UNCHANGED <<audioImpl, videoImpl, aPc, vPc, devPackets, barrier>>
  /\ UNCHANGED <<winVars, legacyVars, engVars>>


\* -------------------------------------------- MediaCaptureClient::stopCapture
stopCapture_lock(c) ==
  /\ pc[c] = "idle"
  /\ LockAvailable(captureMutex)
  /\ \E cb \in BOOLEAN :
       call' = [call EXCEPT ![c] = [NoCall EXCEPT !.op = "stop", !.stopCallback = cb]]
  /\ captureMutex' = c
  /\ pc' = [pc EXCEPT ![c] = "stop_check"]
  /\ Quiet
  /\ UNCHANGED <<isCapturing, audioImpl, videoImpl, aPc, vPc, devPackets, barrier>>
  /\ UNCHANGED <<winVars, legacyVars, engVars>>

\* the fast path dropped: every stop() runs the full teardown
NotRunning_never(flag) == FALSE

\* if (!isCapturing.load())
NotRunning(flag) == ~flag

\* the stop callback and the return that ends the call
StopReturns(c, path) ==
  /\ event' = IF call[c].stopCallback THEN "stopped" ELSE "none"
  /\ barrier' = IF call[c].stopCallback THEN TRUE ELSE barrier
  /\ lastRet' = path
  /\ captureMutex' = 0
  /\ pc' = [pc EXCEPT ![c] = "idle"]
  /\ call' = [call EXCEPT ![c] = NoCall]

\* fast path: callback and return; otherwise isCapturing.store(false)
stopCapture_check(c) ==
  /\ pc[c] = "stop_check"
  /\ IF NotRunning(isCapturing)
       THEN /\ StopReturns(c, "stop:notRunning")
            /\ UNCHANGED isCapturing
       ELSE /\ isCapturing' = FALSE
            /\ Quiet
            /\ pc' = [pc EXCEPT ![c] = "stop_audio_flag"]
            /\ UNCHANGED <<captureMutex, call, barrier>>
  /\ UNCHANGED <<audioImpl, videoImpl, aPc, vPc, devPackets>>
  /\ UNCHANGED <<winVars, legacyVars, engVars>>

\* if (audioImpl) audioImpl->stop(): isCapturing.store(false)
stopCapture_audio_flag(c) ==
  /\ pc[c] = "stop_audio_flag"
  /\ IF audioImpl.exists
       THEN /\ audioImpl' = [audioImpl EXCEPT !.isCapturing = FALSE]
            /\ pc' = [pc EXCEPT ![c] = "stop_audio_event"]
       ELSE /\ pc' = [pc EXCEPT ![c] = "stop_video_flag"]
            /\ UNCHANGED audioImpl
  /\ Quiet
  /\ UNCHANGED <<isCapturing, captureMutex, videoImpl, call, aPc, vPc, devPackets, barrier>>
  /\ UNCHANGED <<winVars, legacyVars, engVars>>

\* SetEvent on an auto-reset event
SetEvent(h) == IF h \in {"nonsignaled", "signaled"} THEN "signaled" ELSE h

\* AudioCaptureImpl::stop: if (hEvent) SetEvent(hEvent)
stopCapture_audio_event(c) ==
  /\ pc[c] = "stop_audio_event"
  /\ audioImpl' = [audioImpl EXCEPT !.hEvent = SetEvent(@)]
  /\ pc' = [pc EXCEPT ![c] = "stop_audio_join"]
  /\ Quiet
  /\ UNCHANGED <<isCapturing, captureMutex, videoImpl, call, aPc, vPc, devPackets, barrier>>
  /\ UNCHANGED <<winVars, legacyVars, engVars>>

\* AudioCaptureImpl::stop: if (captureThread && joinable) { join; delete }
stopCapture_audio_join(c) ==
  /\ pc[c] = "stop_audio_join"
  /\ IF audioImpl.captureThread
       THEN /\ JoinReturns(aPc)
            /\ audioImpl' = [audioImpl EXCEPT !.captureThread = FALSE]
            /\ aPc' = IF aPc = "done" THEN "none" ELSE aPc
       ELSE UNCHANGED <<audioImpl, aPc>>
  /\ pc' = [pc EXCEPT ![c] = "stop_audio_release"]
  /\ Quiet
  /\ UNCHANGED <<isCapturing, captureMutex, videoImpl, call, vPc, devPackets, barrier>>
  /\ UNCHANGED <<winVars, legacyVars, engVars>>

\* members AudioCaptureImpl::stop releases when they are set
AudioReleasedByStop == {"sampleRateConverter", "captureClient", "audioClient", "device", "format"}

\* AudioCaptureImpl::stop: the releases after the join
AudioRelease(a) ==
  [a EXCEPT !.held = @ \ AudioReleasedByStop,
            !.hEvent = IF @ = "NULL" THEN "NULL" ELSE "closed"]

\* the rest of AudioCaptureImpl::stop (audioClient->Stop() and the releases)
stopCapture_audio_release(c) ==
  /\ pc[c] = "stop_audio_release"
  /\ audioImpl' = AudioRelease(audioImpl)
  /\ devPackets' = 0
  /\ pc' = [pc EXCEPT ![c] = "stop_audio_reset"]
  /\ Quiet
  /\ UNCHANGED <<isCapturing, captureMutex, videoImpl, call, aPc, vPc, barrier>>
  /\ UNCHANGED <<winVars, legacyVars, engVars>>

\* audioImpl.reset()
stopCapture_audio_reset(c) ==
  /\ pc[c] = "stop_audio_reset"
  /\ audioImpl' = NullAudio
  /\ pc' = [pc EXCEPT ![c] = "stop_video_flag"]
  /\ Quiet
  /\ UNCHANGED <<isCapturing, captureMutex, videoImpl, call, aPc, vPc, devPackets, barrier>>
  /\ UNCHANGED <<winVars, legacyVars, engVars>>

\* if (videoImpl) videoImpl->stop(): isCapturing.store(false)
stopCapture_video_flag(c) ==
  /\ pc[c] = "stop_video_flag"
  /\ IF videoImpl.exists
       THEN /\ videoImpl' = [videoImpl EXCEPT !.isCapturing = FALSE]
            /\ pc' = [pc EXCEPT ![c] = "stop_video_join"]
       ELSE /\ pc' = [pc EXCEPT ![c] = "stop_callback"]
            /\ UNCHANGED videoImpl
  /\ Quiet
  /\ UNCHANGED <<isCapturing, captureMutex, audioImpl, call, aPc, vPc, devPackets, barrier>>
  /\ UNCHANGED <<winVars, legacyVars, engVars>>

\* VideoCaptureImpl::stop: if (captureThread && joinable) { join; delete }
stopCapture_video_join(c) ==
  /\ pc[c] = "stop_video_join"
  /\ IF videoImpl.captureThread
       THEN /\ JoinReturns(vPc)
            /\ videoImpl' = [videoImpl EXCEPT !.captureThread = FALSE]
            /\ vPc' = IF vPc = "done" THEN "none" ELSE vPc
       ELSE UNCHANGED <<videoImpl, vPc>>
  /\ pc' = [pc EXCEPT ![c] = "stop_video_cleanup"]
  /\ Quiet
  /\ UNCHANGED <<isCapturing, captureMutex, audioImpl, call, aPc, devPackets, barrier>>
  /\ UNCHANGED <<winVars, legacyVars, engVars>>

\* VideoCaptureImpl::cleanup
VideoCleanup(v) == [v EXCEPT !.held = {}]

\* VideoCaptureImpl::stop: cleanup() after the join
stopCapture_video_cleanup(c) ==
  /\ pc[c] = "stop_video_cleanup"
  /\ videoImpl' = VideoCleanup(videoImpl)
  /\ pc' = [pc EXCEPT ![c] = "stop_video_reset"]
  /\ Quiet
  /\ UNCHANGED <<isCapturing, captureMutex, audioImpl, call, aPc, vPc, devPackets, barrier>>
  /\ UNCHANGED <<winVars, legacyVars, engVars>>

\* videoImpl.reset()
stopCapture_video_reset(c) ==
  /\ pc[c] = "stop_video_reset"
  /\ videoImpl' = NullVideo
  /\ pc' = [pc EXCEPT ![c] = "stop_callback"]
  /\ Quiet
  /\ UNCHANGED <<isCapturing, captureMutex, audioImpl, call, aPc, vPc, devPackets, barrier>>
  /\ UNCHANGED <<winVars, legacyVars, engVars>>

\* if (stopCallback) stopCallback(context); and the lock_guard is released
stopCapture_callback(c) ==
  /\ pc[c] = "stop_callback"
  /\ StopReturns(c, "stop:done")
  /\ UNCHANGED <<isCapturing, audioImpl, videoImpl, aPc, vPc, devPackets>>
  /\ UNCHANGED <<winVars, legacyVars, engVars>>


\* ------------------------------------------------ the audio device (WASAPI)
\* the started stream queues a packet and raises the readiness event
DeviceSignal ==
  /\ audioImpl.exists
  /\ "captureClient" \in audioImpl.held
  /\ audioImpl.hEvent \in {"nonsignaled", "signaled"}
  /\ aPc # "none"
  /\ devPackets < MaxPackets
  /\ devPackets' = devPackets + 1
  /\ audioImpl' = [audioImpl EXCEPT !.hEvent = SetEvent(@)]
  /\ Quiet
  /\ UNCHANGED <<isCapturing, captureMutex, videoImpl, pc, call, aPc, vPc, barrier>>
  /\ UNCHANGED <<winVars, legacyVars, engVars>>

\* ------------------------------------------ AudioCaptureImpl::captureThreadProc
\* where a capture thread continues after an exit callback it has fired
AfterExit(nextPc) == IF ExitCallback(TRUE).stops THEN "reentrant_stop" ELSE nextPc

\* if (isCapturing.load() && exitCallback) exitCallback(errorMsg, context)
AudioError(nextPc) ==
  IF audioImpl.isCapturing
    THEN /\ event' = "exitAudio"
         /\ audioImpl' = [audioImpl EXCEPT !.exits = Bump(@)]
         /\ aPc' = AfterExit(nextPc)
    ELSE /\ event' = "none"
         /\ aPc' = nextPc
         /\ UNCHANGED audioImpl

\* while (isCapturing.load())
audio_top ==
  /\ aPc = "top"
  /\ aPc' = IF audioImpl.isCapturing THEN "wait" ELSE "done"
  /\ Quiet
  /\ UNCHANGED <<isCapturing, captureMutex, audioImpl, videoImpl, pc, call, vPc, devPackets, barrier>>
  /\ UNCHANGED <<winVars, legacyVars, engVars>>

\* WaitForSingleObject(hEvent, INFINITE): returns when the event is signaled
\* (and resets it), or fails
audio_wait ==
  /\ aPc = "wait"
  /\ \/ /\ audioImpl.hEvent = "signaled"
        /\ audioImpl' = [audioImpl EXCEPT !.hEvent = "nonsignaled"]
        /\ aPc' = "size"
        /\ event' = "none"
     \/ AudioError("done")
  /\ lastRet' = "none"
  /\ UNCHANGED <<isCapturing, captureMutex, videoImpl, pc, call, vPc, devPackets, barrier>>
  /\ UNCHANGED <<winVars, legacyVars, engVars>>

\* GetNextPacketSize before the inner loop: a failure breaks the outer loop
audio_size ==
  /\ aPc = "size"
  /\ \/ /\ aPc' = IF devPackets > 0 THEN "buffer" ELSE "top"
        /\ event' = "none"
        /\ UNCHANGED audioImpl
     \/ AudioError("done")
  /\ lastRet' = "none"
  /\ UNCHANGED <<isCapturing, captureMutex, videoImpl, pc, call, vPc, devPackets, barrier>>
  /\ UNCHANGED <<winVars, legacyVars, engVars>>

\* GetBuffer, conversion and delivery of one packet; a GetBuffer failure
\* breaks the inner loop only
audio_buffer ==
  /\ aPc = "buffer"
  /\ \/ \* GetBuffer fails
        AudioError("top")
     \/ \* silent packet, or the resampler generated no frame: nothing delivered
        /\ aPc' = "release"
        /\ event' = "none"
        /\ UNCHANGED audioImpl
     \/ \* src_process fails: exit callback, then the buffer is released
        AudioError("release")
     \/ \* audioCallback(...)
        /\ aPc' = "release"
        /\ event' = "audioFrame"
        /\ UNCHANGED audioImpl
  /\ lastRet' = "none"
  /\ UNCHANGED <<isCapturing, captureMutex, videoImpl, pc, call, vPc, devPackets, barrier>>
  /\ UNCHANGED <<winVars, legacyVars, engVars>>

\* ReleaseBuffer: a failure breaks the inner loop
audio_release ==
  /\ aPc = "release"
  /\ \/ /\ aPc' = "next"
        /\ devPackets' = IF devPackets > 0 THEN devPackets - 1 ELSE 0
        /\ event' = "none"
        /\ UNCHANGED audioImpl
     \/ /\ AudioError("top")
        /\ UNCHANGED devPackets
  /\ lastRet' = "none"
  /\ UNCHANGED <<isCapturing, captureMutex, videoImpl, pc, call, vPc, barrier>>
  /\ UNCHANGED <<winVars, legacyVars, engVars>>

\* GetNextPacketSize at the end of the inner loop: a failure breaks the inner loop
audio_next ==
  /\ aPc = "next"
  /\ \/ /\ aPc' = IF devPackets > 0 THEN "buffer" ELSE "top"
        /\ event' = "none"
        /\ UNCHANGED audioImpl
     \/ AudioError("top")
  /\ lastRet' = "none"
  /\ UNCHANGED <<isCapturing, captureMutex, videoImpl, pc, call, vPc, devPackets, barrier>>
  /\ UNCHANGED <<winVars, legacyVars, engVars>>

\* ------------------------------------------ VideoCaptureImpl::captureThreadProc
VideoError(nextPc) ==
  IF videoImpl.isCapturing
    THEN /\ event' = "exitVideo"
         /\ videoImpl' = [videoImpl EXCEPT !.exits = Bump(@)]
         /\ vPc' = AfterExit(nextPc)
    ELSE /\ event' = "none"
         /\ vPc' = nextPc
         /\ UNCHANGED videoImpl

\* while (isCapturing.load()), then the pacing sleep
video_top ==
  /\ vPc = "top"
  /\ vPc' = IF videoImpl.isCapturing THEN "capture" ELSE "done"
  /\ Quiet
  /\ UNCHANGED <<isCapturing, captureMutex, audioImpl, videoImpl, pc, call, aPc, devPackets, barrier>>
  /\ UNCHANGED <<winVars, legacyVars, engVars>>

\* captureFrame(): false (timeout not forced, acquisition failure) continues
\* the loop without any callback; true goes on to processFrame
video_capture ==
  /\ vPc = "capture"
  /\ \/ vPc' = "top"
     \/ vPc' = "process"
  /\ Quiet
  /\ UNCHANGED <<isCapturing, captureMutex, audioImpl, videoImpl, pc, call, aPc, devPackets, barrier>>
  /\ UNCHANGED <<winVars, legacyVars, engVars>>

\* processFrame(): a mapping failure fires the exit callback and continues
video_process ==
  /\ vPc = "process"
  /\ \/ /\ vPc' = "encode"
        /\ event' = "none"
        /\ UNCHANGED videoImpl
     \/ VideoError("top")
  /\ lastRet' = "none"
  /\ UNCHANGED <<isCapturing, captureMutex, audioImpl, pc, call, aPc, devPackets, barrier>>
  /\ UNCHANGED <<winVars, legacyVars, engVars>>

\* encodeFrameToJPEG(): failure fires the exit callback and continues;
\* success delivers the frame through videoCallback
video_encode ==
  /\ vPc = "encode"
  /\ \/ /\ vPc' = "top"
        /\ event' = "videoFrame"
        /\ UNCHANGED videoImpl
     \/ VideoError("top")
  /\ lastRet' = "none"
  /\ UNCHANGED <<isCapturing, captureMutex, audioImpl, pc, call, aPc, devPackets, barrier>>
  /\ UNCHANGED <<winVars, legacyVars, engVars>>

\* ============================================================ MediaCaptureWin
\* std::thread objects that can exist at once (joined ones are reused)
MaxThreads == 2

WinThreads == 1..MaxThreads

\* MediaCaptureConfigC: the fields startCapture validates (bundleID is null)
WinConfigs == [displayID : {0, 1}, windowID : {0, 101}]

\* the locals of a host thread inside stopCapture: its callback argument and
\* the captureThread it has read
NoWinLocal == [stopCallback |-> FALSE, thread |-> 0]

\* the points at which captureThreadWorker gives up before its main loop
WinSetupFailures ==
  {"com", "initializeCapture", "d3d11", "dxgiDevice", "dxgiAdapter", "output",
   "duplication", "enumerator", "endpoint", "activate", "mixformat",
   "initialize", "service", "start"}

\* MediaCaptureWin::MediaCaptureWin
WinInit ==
  /\ win_captureInProgress = FALSE
  /\ win_captureThread = 0
  /\ win_captureMutex = 0
  /\ win_callbacks = [video |-> FALSE, audio |-> FALSE]
  /\ win_threads = [t \in WinThreads |-> "none"]
  /\ win_pc = [c \in Callers |-> "idle"]
  /\ win_local = [c \in Callers |-> NoWinLocal]
  /\ win_event = "none"

\* the process is still running (a double join has not brought it down)
WinAlive == \A c \in Callers : win_pc[c] # "crashed"

\* the std::thread a new std::thread(...) yields
WinFreeThreads == {t \in WinThreads : win_threads[t] = "none"}
NewThread == CHOOSE t \in WinFreeThreads : \A u \in WinFreeThreads : t <= u

\* a return of startCapture / stopCapture
WinReturn(c, e) ==
  /\ win_event' = e
  /\ win_pc' = [win_pc EXCEPT ![c] = "idle"]
  /\ win_local' = [win_local EXCEPT ![c] = NoWinLocal]

\* startMediaCapture -> MediaCaptureWin::startCapture: if (captureInProgress)
\* return false, which the exported wrapper turns into an exit callback
win_startCapture_check(c) ==
  /\ WinAlive
  /\ win_pc[c] = "idle"
  /\ IF win_captureInProgress
       THEN WinReturn(c, "exit:already")
       ELSE /\ win_pc' = [win_pc EXCEPT ![c] = "start_store"]
            /\ win_event' = "none"
            /\ UNCHANGED win_local
  /\ UNCHANGED <<win_captureInProgress, win_captureThread, win_captureMutex,
                 win_callbacks, win_threads>>
  /\ UNCHANGED <<clientVars, legacyVars, engVars>>

\* the callbacks given are stored, then the target is validated and looked up
win_startCapture_store(c) ==
  /\ WinAlive
  /\ win_pc[c] = "start_store"
  /\ \E config \in WinConfigs, v \in BOOLEAN, a \in BOOLEAN :
       /\ win_callbacks' = [video |-> v, audio |-> a]
       /\ IF config.displayID = 0 /\ config.windowID = 0
            THEN WinReturn(c, "exit:noTarget")
            ELSE \/ \* findCaptureTarget fails
                    WinReturn(c, "exit:notFound")
                 \/ /\ win_pc' = [win_pc EXCEPT ![c] = "start_flag"]
                    /\ win_event' = "none"
                    /\ UNCHANGED win_local
  /\ UNCHANGED <<win_captureInProgress, win_captureThread, win_captureMutex, win_threads>>
  /\ UNCHANGED <<clientVars, legacyVars, engVars>>

\* captureInProgress = true
win_startCapture_flag(c) ==
  /\ WinAlive
  /\ win_pc[c] = "start_flag"
  /\ win_captureInProgress' = TRUE
  /\ win_pc' = [win_pc EXCEPT ![c] = "start_thread"]
  /\ win_event' = "none"
  /\ UNCHANGED <<win_captureThread, win_captureMutex, win_callbacks, win_threads, win_local>>
  /\ UNCHANGED <<clientVars, legacyVars, engVars>>

\* captureThread = new std::thread(captureThreadWorker); return true
win_startCapture_thread(c) ==
  /\ WinAlive
  /\ win_pc[c] = "start_thread"
  /\ WinFreeThreads # {}
  /\ win_threads' = [win_threads EXCEPT ![NewThread] = "setup"]
  /\ win_captureThread' = NewThread
  /\ WinReturn(c, "true")
  /\ UNCHANGED <<win_captureInProgress, win_captureMutex, win_callbacks>>
  /\ UNCHANGED <<clientVars, legacyVars, engVars>>

\* MediaCaptureWin::stopCapture: if (!captureInProgress) { callback; return; }
win_stopCapture_check(c) ==
  /\ WinAlive
  /\ win_pc[c] = "idle"
  /\ \E cb \in BOOLEAN :
       IF ~win_captureInProgress
         THEN WinReturn(c, IF cb THEN "stopped" ELSE "none")
         ELSE /\ win_local' = [win_local EXCEPT ![c] =
                   [NoWinLocal EXCEPT !.stopCallback = cb]]
              /\ win_pc' = [win_pc EXCEPT ![c] = "stop_signal"]
              /\ win_event' = "none"
  /\ UNCHANGED <<win_captureInProgress, win_captureThread, win_captureMutex,
                 win_callbacks, win_threads>>
  /\ UNCHANGED <<clientVars, legacyVars, engVars>>

\* { lock_guard lock(captureMutex); captureInProgress = false; notify_all(); }
win_stopCapture_signal(c) ==
  /\ WinAlive
  /\ win_pc[c] = "stop_signal"
  /\ LockAvailable(win_captureMutex)
  /\ win_captureInProgress' = FALSE
  /\ win_pc' = [win_pc EXCEPT ![c] = "stop_read"]
  /\ win_event' = "none"
  /\ UNCHANGED <<win_captureThread, win_captureMutex, win_callbacks, win_threads, win_local>>
  /\ UNCHANGED <<clientVars, legacyVars, engVars>>

\* if (captureThread && captureThread->joinable())
win_stopCapture_read(c) ==
  /\ WinAlive
  /\ win_pc[c] = "stop_read"
  /\ win_local' = [win_local EXCEPT ![c].thread = win_captureThread]
  /\ win_pc' = [win_pc EXCEPT ![c] =
                  IF win_captureThread = 0 THEN "stop_cleanup" ELSE "stop_join"]
  /\ win_event' = "none"
  /\ UNCHANGED <<win_captureInProgress, win_captureThread, win_captureMutex,
                 win_callbacks, win_threads>>
  /\ UNCHANGED <<clientVars, legacyVars, engVars>>

\* captureThread->join(); delete captureThread; captureThread = nullptr.
\* Joining a std::thread that a concurrent stopCapture has already deleted is
\* undefined: the call goes on, or the process dies.
win_stopCapture_join(c) ==
  /\ WinAlive
  /\ win_pc[c] = "stop_join"
  /\ LET t == win_local[c].thread IN
       \/ /\ win_threads[t] # "none"
          /\ JoinReturns(win_threads[t])
          /\ win_threads' = [win_threads EXCEPT ![t] = "none"]
          /\ win_captureThread' = 0
          /\ win_pc' = [win_pc EXCEPT ![c] = "stop_cleanup"]
       \/ /\ win_threads[t] = "none"
          /\ \/ /\ win_captureThread' = 0
                /\ win_pc' = [win_pc EXCEPT ![c] = "stop_cleanup"]
             \/ /\ win_pc' = [win_pc EXCEPT ![c] = "crashed"]
                /\ UNCHANGED win_captureThread
          /\ UNCHANGED win_threads
  /\ win_event' = "none"
  /\ UNCHANGED <<win_captureInProgress, win_captureMutex, win_callbacks, win_local>>
  /\ UNCHANGED <<clientVars, legacyVars, engVars>>

\* cleanupCapture(); if (callback) callback(context);
win_stopCapture_cleanup(c) ==
  /\ WinAlive
  /\ win_pc[c] = "stop_cleanup"
  /\ WinReturn(c, IF win_local[c].stopCallback THEN "stopped" ELSE "none")
  /\ UNCHANGED <<win_captureInProgress, win_captureThread, win_captureMutex,
                 win_callbacks, win_threads>>
  /\ UNCHANGED <<clientVars, legacyVars, engVars>>

\* ------------------------------------------ MediaCaptureWin::captureThreadWorker
WinWorkerGoes(t, next) == win_threads' = [win_threads EXCEPT ![t] = next]

\* COM, Direct3D, duplication and WASAPI set-up: any failure fires the exit
\* callback, clears captureInProgress and ends the thread
win_worker_setup(t) ==
  /\ WinAlive
  /\ win_threads[t] = "setup"
  /\ \/ \E fail \in WinSetupFailures :
          /\ win_event' = "exit"
          /\ win_captureInProgress' = FALSE
          /\ WinWorkerGoes(t, "done")
     \/ /\ win_event' = "none"
        /\ WinWorkerGoes(t, "top")
        /\ UNCHANGED win_captureInProgress
  /\ UNCHANGED <<win_captureThread, win_captureMutex, win_callbacks, win_pc, win_local>>
  /\ UNCHANGED <<clientVars, legacyVars, engVars>>

\* while (captureInProgress); after the loop audioClient->Stop()
win_worker_top(t) ==
  /\ WinAlive
  /\ win_threads[t] = "top"
  /\ WinWorkerGoes(t, IF win_captureInProgress THEN "lock" ELSE "done")
  /\ win_event' = "none"
  /\ UNCHANGED <<win_captureInProgress, win_captureThread, win_captureMutex,
                 win_callbacks, win_pc, win_local>>
  /\ UNCHANGED <<clientVars, legacyVars, engVars>>

\* std::unique_lock<std::mutex> lock(captureMutex)
win_worker_lock(t) ==
  /\ WinAlive
  /\ win_threads[t] = "lock"
  /\ LockAvailable(win_captureMutex)
  /\ win_captureMutex' = t
  /\ WinWorkerGoes(t, "audio")
  /\ win_event' = "none"
  /\ UNCHANGED <<win_captureInProgress, win_captureThread, win_callbacks, win_pc, win_local>>
  /\ UNCHANGED <<clientVars, legacyVars, engVars>>

\* GetNextPacketSize / GetBuffer / processAudioData / ReleaseBuffer
win_worker_audio(t) ==
  /\ WinAlive
  /\ win_threads[t] = "audio"
  /\ \/ win_event' = "none"
     \/ win_callbacks.audio /\ win_event' = "audioFrame"
  /\ WinWorkerGoes(t, "video")
  /\ UNCHANGED <<win_captureInProgress, win_captureThread, win_captureMutex,
                 win_callbacks, win_pc, win_local>>
  /\ UNCHANGED <<clientVars, legacyVars, engVars>>

\* if (elapsedSec >= frameInterval) if (CaptureScreen(...)) if (videoCallback)
win_worker_video(t) ==
  /\ WinAlive
  /\ win_threads[t] = "video"
  /\ \/ win_event' = "none"
     \/ win_callbacks.video /\ win_event' = "videoFrame"
  /\ WinWorkerGoes(t, "wait")
  /\ UNCHANGED <<win_captureInProgress, win_captureThread, win_captureMutex,
                 win_callbacks, win_pc, win_local>>
  /\ UNCHANGED <<clientVars, legacyVars, engVars>>

\* captureCV.wait_for(lock, 10ms) gives the mutex up
win_worker_wait(t) ==
  /\ WinAlive
  /\ win_threads[t] = "wait"
  /\ win_captureMutex' = 0
  /\ WinWorkerGoes(t, "wake")
  /\ win_event' = "none"
  /\ UNCHANGED <<win_captureInProgress, win_captureThread, win_callbacks, win_pc, win_local>>
  /\ UNCHANGED <<clientVars, legacyVars, engVars>>

\* wait_for returns holding the mutex again; the lock's scope ends
win_worker_wake(t) ==
  /\ WinAlive
  /\ win_threads[t] = "wake"
  /\ LockAvailable(win_captureMutex)
  /\ WinWorkerGoes(t, "top")
  /\ win_event' = "none"
  /\ UNCHANGED <<win_captureInProgress, win_captureThread, win_captureMutex,
                 win_callbacks, win_pc, win_local>>
  /\ UNCHANGED <<clientVars, legacyVars, engVars>>

WinCallerStep(c) ==
  \/ win_startCapture_check(c)
  \/ win_startCapture_store(c)
  \/ win_startCapture_flag(c)
  \/ win_startCapture_thread(c)
  \/ win_stopCapture_check(c)
  \/ win_stopCapture_signal(c)
  \/ win_stopCapture_read(c)
  \/ win_stopCapture_join(c)
  \/ win_stopCapture_cleanup(c)

WinWorker(t) ==
  \/ win_worker_setup(t)
  \/ win_worker_top(t)
  \/ win_worker_lock(t)
  \/ win_worker_audio(t)
  \/ win_worker_video(t)
  \/ win_worker_wait(t)
  \/ win_worker_wake(t)

WinNext ==
  \/ \E c \in Callers : WinCallerStep(c)
  \/ \E t \in WinThreads : WinWorker(t)

\* ========================================================= AudioCaptureClient
\* CaptureConfig: the fields startCapture reads
LegacyConfigs == [channels : {1, 2}, sampleRate : {0, 16000, 48000}]

\* the platform calls of AudioCaptureClient::startCapture, in order, with the
\* member each one fills on success and the members it releases
LegacySteps ==
  << [name |-> "channels",        acquires |-> {},                      releases |-> {}],
     [name |-> "CoCreateInstance", acquires |-> {"enumerator"},         releases |-> {}],
     [name |-> "endpoint",        acquires |-> {"recorder"},            releases |-> {}],
     [name |-> "enumRelease",     acquires |-> {},                      releases |-> {"enumerator"}],
     [name |-> "activate",        acquires |-> {"recorderClient"},      releases |-> {}],
     [name |-> "mixformat",       acquires |-> {"format"},              releases |-> {}],
     [name |-> "formatIsValid",   acquires |-> {},                      releases |-> {}],
     [name |-> "nChannels",       acquires |-> {},                      releases |-> {}],
     [name |-> "Initialize",      acquires |-> {},                      releases |-> {}],
     [name |-> "GetService",      acquires |-> {"captureService"},      releases |-> {}],
     [name |-> "CreateEvent",     acquires |-> {"hEvent"},              releases |-> {}],
     [name |-> "SetEventHandle",  acquires |-> {},                      releases |-> {}],
     [name |-> "Start",           acquires |-> {},                      releases |-> {}] >>

\* the calls that can fail whatever the configuration is
LegacyFailures == {LegacySteps[i].name : i \in 2..Len(LegacySteps)}

\* members filled once the first k calls have succeeded, from those filled before
RECURSIVE LegacyHeldAfter(_, _)
LegacyHeldAfter(before, k) ==
  IF k = 0 THEN before
  ELSE (LegacyHeldAfter(before, k - 1) \cup LegacySteps[k].acquires) \ LegacySteps[k].releases

LegacyStepIndex(name) == CHOOSE i \in 1..Len(LegacySteps) : LegacySteps[i].name = name

\* AudioCaptureClient's member initialisers
LegacyInit ==
  /\ legacy_captureInProgress = FALSE
  /\ legacy_hEvent = "NULL"
  /\ legacy_audioRetrievalThread = "NULL"
  /\ legacy_held = {}
  /\ legacy_cc = [channels |-> 1, sampleRate |-> 16000]
  /\ legacy_worker = "none"
  /\ legacy_packets = 0
  /\ legacy_pc = "idle"
  /\ legacy_event = "none"

\* AudioCaptureClient::startCapture, called on a client that is not capturing.
\* Every failure fires the exit callback and returns, keeping what was acquired;
\* src_new may fail without ending the start.
legacy_startCapture ==
  /\ legacy_pc = "idle"
  /\ ~legacy_captureInProgress
  /\ legacy_worker = "none"
  /\ \E cc \in LegacyConfigs, fail \in LegacyFailures \cup {"none"}, src \in BOOLEAN :
       LET bad  == IF cc.channels # 1 THEN "channels" ELSE fail
           k    == IF bad = "none" THEN Len(LegacySteps) ELSE LegacyStepIndex(bad) - 1
           conv == IF bad = "channels" THEN legacy_held
                   ELSE IF src THEN legacy_held \cup {"sampleRateConverter"}
                   ELSE legacy_held \ {"sampleRateConverter"}
           h    == LegacyHeldAfter(conv, k)
       IN /\ legacy_cc' = cc
          /\ legacy_held' = h \ {"hEvent"}
          /\ legacy_hEvent' = IF "hEvent" \in h THEN "nonsignaled" ELSE legacy_hEvent
          /\ legacy_captureInProgress' = (bad = "none")
          /\ legacy_audioRetrievalThread' =
               IF bad = "none" THEN "live" ELSE legacy_audioRetrievalThread
          /\ legacy_worker' = IF bad = "none" THEN "top" ELSE "none"
          /\ legacy_event' = IF bad = "none" THEN "none" ELSE "exit"
  /\ legacy_packets' = 0
  /\ UNCHANGED legacy_pc
  /\ UNCHANGED <<clientVars, winVars, engVars>>

\* AudioCaptureClient::stopCapture on a capturing client: captureInProgress = false
legacy_stopCapture_flag ==
  /\ legacy_pc = "idle"
  /\ legacy_captureInProgress
  /\ legacy_captureInProgress' = FALSE
  /\ legacy_pc' = "stop_join"
  /\ legacy_event' = "none"
  /\ UNCHANGED <<legacy_hEvent, legacy_audioRetrievalThread, legacy_held, legacy_cc,
                 legacy_worker, legacy_packets>>
  /\ UNCHANGED <<clientVars, winVars, engVars>>

\* if (audioRetrievalThread) { if (joinable()) join(); delete audioRetrievalThread; }
legacy_stopCapture_join ==
  /\ legacy_pc = "stop_join"
  /\ IF legacy_audioRetrievalThread = "live"
       THEN /\ JoinReturns(legacy_worker)
            /\ legacy_worker' = IF legacy_worker = "done" THEN "none" ELSE legacy_worker
            /\ legacy_audioRetrievalThread' = "deleted"
       ELSE UNCHANGED <<legacy_worker, legacy_audioRetrievalThread>>
  /\ legacy_pc' = "stop_release"
  /\ legacy_event' = "none"
  /\ UNCHANGED <<legacy_captureInProgress, legacy_hEvent, legacy_held, legacy_cc,
                 legacy_packets>>
  /\ UNCHANGED <<clientVars, winVars, engVars>>

\* members AudioCaptureClient::stopCapture releases
LegacyReleasedByStop == {"captureService", "recorderClient", "recorder", "sampleRateConverter"}

\* CloseHandle(hEvent); recorderClient->Stop(); the releases; stopCaptureCallback
legacy_stopCapture_release ==
  /\ legacy_pc = "stop_release"
  /\ legacy_hEvent' = IF legacy_hEvent = "NULL" THEN "NULL" ELSE "closed"
  /\ legacy_held' = legacy_held \ LegacyReleasedByStop
  /\ legacy_packets' = 0
  /\ legacy_event' = "stopped"
  /\ legacy_pc' = "idle"
  /\ UNCHANGED <<legacy_captureInProgress, legacy_audioRetrievalThread, legacy_cc,
                 legacy_worker>>
  /\ UNCHANGED <<clientVars, winVars, engVars>>

\* the started loopback stream queues a packet and raises the readiness event
LegacyDeviceSignal ==
  /\ legacy_audioRetrievalThread = "live"
  /\ "recorderClient" \in legacy_held
  /\ legacy_hEvent \in {"nonsignaled", "signaled"}
  /\ legacy_packets < MaxPackets
  /\ legacy_packets' = legacy_packets + 1
  /\ legacy_hEvent' = SetEvent(legacy_hEvent)
  /\ legacy_event' = "none"
  /\ UNCHANGED <<legacy_captureInProgress, legacy_audioRetrievalThread, legacy_held,
                 legacy_cc, legacy_worker, legacy_pc>>
  /\ UNCHANGED <<clientVars, winVars, engVars>>

\* -------------------------------- AudioCaptureClient::audioRetrievalThreadWorker
\* captureInProgress is a plain bool: a read that races with stopCapture's
\* store yields the old value or the new one
RacyRead(value, old, racing) == IF racing THEN {value, old} ELSE {value}

\* while (captureInProgress)
legacy_worker_top ==
  /\ legacy_worker = "top"
  /\ \E seen \in RacyRead(legacy_captureInProgress, TRUE, legacy_pc = "stop_join") :
       legacy_worker' = IF seen THEN "wait" ELSE "done"
  /\ legacy_event' = "none"
  /\ UNCHANGED <<legacy_captureInProgress, legacy_hEvent, legacy_audioRetrievalThread,
                 legacy_held, legacy_cc, legacy_packets, legacy_pc>>
  /\ UNCHANGED <<clientVars, winVars, engVars>>

\* WaitForSingleObject(hEvent, INFINITE) returns when the auto-reset event is
\* signaled, and resets it
legacy_worker_wait ==
  /\ legacy_worker = "wait"
  /\ legacy_hEvent = "signaled"
  /\ legacy_hEvent' = "nonsignaled"
  /\ legacy_worker' = "retrieve"
  /\ legacy_event' = "none"
  /\ UNCHANGED <<legacy_captureInProgress, legacy_audioRetrievalThread, legacy_held,
                 legacy_cc, legacy_packets, legacy_pc>>
  /\ UNCHANGED <<clientVars, winVars, engVars>>

\* retrieveAndResampleAllPendingOriginalAudio drains every pending packet; a
\* failing device call trips an assert (the process aborts) or, with asserts
\* compiled out, retrieves nothing
legacy_worker_retrieve ==
  /\ legacy_worker = "retrieve"
  /\ \/ legacy_packets' = 0 /\ legacy_worker' = "callback"
     \/ UNCHANGED legacy_packets /\ legacy_worker' \in {"aborted", "callback"}
  /\ legacy_event' = "none"
  /\ UNCHANGED <<legacy_captureInProgress, legacy_hEvent, legacy_audioRetrievalThread,
                 legacy_held, legacy_cc, legacy_pc>>
  /\ UNCHANGED <<clientVars, winVars, engVars>>

\* dataCallback(...) on every wake-up
legacy_worker_callback ==
  /\ legacy_worker = "callback"
  /\ legacy_event' = "audioFrame"
  /\ legacy_worker' = "top"
  /\ UNCHANGED <<legacy_captureInProgress, legacy_hEvent, legacy_audioRetrievalThread,
                 legacy_held, legacy_cc, legacy_packets, legacy_pc>>
  /\ UNCHANGED <<clientVars, winVars, engVars>>

LegacyWorker ==
  \/ legacy_worker_top
  \/ legacy_worker_wait
  \/ legacy_worker_retrieve
  \/ legacy_worker_callback

\* the steps of a stopCapture call in progress
LegacyCallerProgress ==
  \/ legacy_stopCapture_join
  \/ legacy_stopCapture_release

LegacyNext ==
  \/ legacy_startCapture
  \/ legacy_stopCapture_flag
  \/ LegacyCallerProgress
  \/ LegacyDeviceSignal
  \/ LegacyWorker

\* ----------------------------------------------- VideoCaptureImpl on its own
\* One VideoCaptureImpl driven by a host thread, with the clock its pacing
\* reads.  Time is in milliseconds; a step takes no time unless it sleeps,
\* waits for the device, or encodes.  The clock is followed up to Horizon and
\* stands still there.
Horizon == 1200
FrameCap == 12

\* config.frameRate values the host passes
FrameRates == {0, 3, 10, 2000}

\* what IDXGIOutputDuplication::AcquireNextFrame does: a new frame at once
\* while the screen keeps changing, DXGI_ERROR_WAIT_TIMEOUT once it is still,
\* and a failure other than a timeout once the device is lost
SourceModes == {"ready", "timeout"}

\* time one iteration spends in processFrame and encodeFrameToJPEG, the same
\* for every frame of a run
WorkTimes == {0, 40}

\* what becomes of a captured frame, the same for every frame of a run: it is
\* encoded, ID3D11DeviceContext::Map fails, or the JPEG encoder fails
EncoderModes == {"ok", "processFails", "encodeFails"}

\* lastSuccessfulFrameTime before the first acquisition: a default-constructed
\* time_point, the clock's epoch
Epoch == 0 - 100000

NoObs ==
  [threadStart |-> 0, lastAttempt |-> 0 - 1, gap |-> 0 - 1, busy |-> 0,
   frames |-> 0, firstFrame |-> 0 - 1, exits |-> 0, stops |-> 0]

VideoEngInit ==
  /\ ve_host = "new"
  /\ ve_isCapturing = FALSE
  /\ ve_held = {}
  /\ ve_thread = "none"
  /\ ve_frameRate = 0
  /\ ve_frameInterval = 1000
  /\ ve_now = 0
  /\ ve_lastFrameTime = 0
  /\ ve_lastSuccessfulFrameTime = Epoch
  /\ ve_source = "ready"
  /\ ve_work = 0
  /\ ve_encoder = "ok"
  /\ ve_obs = NoObs

\* videocaptureimpl.cc:111-116: frameRate <= 0 becomes 30, and the interval is
\* static_cast<int>(1000.0f / frameRate) whole milliseconds
EffectiveFrameRate(frameRate) == IF frameRate <= 0 THEN 30 ELSE frameRate

FrameInterval(frameRate) == 1000 \div EffectiveFrameRate(frameRate)

\* captureThreadProc: the pacing sleep, 0 when the interval has already passed
SleepFor_never(elapsed, interval) == 0

SleepFor(elapsed, interval) == IF elapsed < interval THEN interval - elapsed ELSE 0

\* single-precision division as the processor performs it.  ShiftDiv carries
\* the long division of a remainder r by d on for k more binary digits.
RECURSIVE Normalize(_, _, _, _)
Normalize(q, r, d, e) ==
  IF q >= 2^23 THEN [q |-> q, r |-> r, e |-> e]
  ELSE IF 2 * r >= d THEN Normalize(2 * q + 1, 2 * r - d, d, e + 1)
                     ELSE Normalize(2 * q, 2 * r, d, e + 1)

\* the float nearest to n / d (0 < n, 0 < d < 2^24, n / d < 2^23), as the pair
\* m, e with value m / 2^e and a 24-bit m: round to nearest, ties to even
Float32Div(n, d) ==
  LET x == Normalize(n \div d, n % d, d, 0)
      up == 2 * x.r > d \/ (2 * x.r = d /\ x.q % 2 = 1)
  IN  [m |-> IF up THEN x.q + 1 ELSE x.q, e |-> x.e]

\* captureFrame: static_cast<UINT>(1000.0f / frameRate) with
\* frameRate = 1000.0f / frameInterval.count(); a zero interval gives an
\* infinite frameRate and 0
RecomputedInterval(interval) ==
  IF interval = 0 THEN 0
  ELSE LET frameRate == Float32Div(1000, interval)
           t == Float32Div(1000, frameRate.m)
           shift == t.e - frameRate.e
       IN  IF shift >= 0 THEN t.m \div 2^shift ELSE 2^24

Clamp(t) == IF t < 100 THEN 100 ELSE IF t > 500 THEN 500 ELSE t

TimeoutMs_unclamped(interval) == RecomputedInterval(interval)

\* config.frameRate is a float: the rates num / den in halves from -1 to 65,
\* and two very large ones
HalfRates == [num : (0 - 2)..130, den : {2}]

FloatRates == HalfRates \cup [num : {2000, 100000}, den : {1}]

\* VideoCaptureImpl::start: frameRate <= 0 becomes 30, and frameInterval is
\* static_cast<int>(1000.0f / frameRate) milliseconds
FrameIntervalOf(rate) ==
  IF rate.num <= 0 THEN FrameInterval(0) ELSE (1000 * rate.den) \div rate.num

\* the frame intervals a session can have
FrameIntervals ==
  {FrameInterval(r) : r \in FrameRates} \cup {FrameIntervalOf(r) : r \in FloatRates}

\* captureFrame: timeoutMs = min(500, max(100, ...)), the same in every
\* call of a session since frameInterval is fixed by start(); worked out
\* once per interval
Timeouts == [interval \in FrameIntervals |-> Clamp(RecomputedInterval(interval))]

TimeoutMs(interval) == Timeouts[interval]

\* captureFrame: a timeout is turned into a frame once more than
\* 2000 / frameRate ms have passed since lastSuccessfulFrameTime
ForcedFrame(elapsed, interval) == elapsed > 2 * interval

\* the clock after d more milliseconds; it is followed while the device is
\* there
Tick(d) ==
  IF ve_source = "broken" THEN ve_now
  ELSE IF ve_now + d > Horizon THEN Horizon ELSE ve_now + d

Measured == ve_source # "broken" /\ ve_now < Horizon

VideoEngAlive == ve_thread \notin {"none", "done"}

\* VideoCaptureImpl::start on a fresh instance
ve_start ==
  /\ ve_host = "new"
  /\ \E frameRate \in FrameRates, fail \in VideoFailures \cup {"none"},
        mode \in SourceModes, w \in WorkTimes, enc \in EncoderModes :
       LET r == VideoStart(fail) IN
       /\ ve_work' = w
       /\ ve_encoder' = enc
       /\ ve_frameRate' = frameRate
       /\ ve_frameInterval' = FrameInterval(frameRate)
       /\ ve_held' = r.impl.held
       /\ ve_isCapturing' = r.impl.isCapturing
       /\ ve_thread' = IF r.result THEN "entry" ELSE "none"
       /\ ve_host' = IF r.result THEN "started" ELSE "failed"
       /\ ve_source' = mode
       /\ ve_obs' = [ve_obs EXCEPT !.exits = @ + r.impl.exits, !.threadStart = ve_now]
  /\ UNCHANGED <<ve_now, ve_lastFrameTime, ve_lastSuccessfulFrameTime>>
  /\ UNCHANGED <<clientVars, winVars, legacyVars, audioEngVars, packetVars, unitVars>>

\* the screen stops changing: from now on every acquisition times out
ve_screenStill ==
  /\ ve_host = "started"
  /\ ve_source = "ready"
  /\ ve_source' = "timeout"
  /\ UNCHANGED <<ve_host, ve_isCapturing, ve_held, ve_thread, ve_frameRate,
                 ve_frameInterval, ve_now, ve_lastFrameTime,
                 ve_lastSuccessfulFrameTime, ve_work, ve_encoder, ve_obs>>
  /\ UNCHANGED <<clientVars, winVars, legacyVars, audioEngVars, packetVars, unitVars>>

\* the display is lost: from now on every acquisition fails, and not with a
\* timeout
ve_deviceLost ==
  /\ ve_host = "started"
  /\ ve_source # "broken"
  /\ ve_source' = "broken"
  /\ UNCHANGED <<ve_host, ve_isCapturing, ve_held, ve_thread, ve_frameRate,
                 ve_frameInterval, ve_now, ve_lastFrameTime,
                 ve_lastSuccessfulFrameTime, ve_work, ve_encoder, ve_obs>>
  /\ UNCHANGED <<clientVars, winVars, legacyVars, audioEngVars, packetVars, unitVars>>

\* VideoCaptureImpl::stop, and the destructor of a capturing instance, which
\* calls it: isCapturing.store(false)
ve_stop_flag ==
  /\ ve_host = "started"
  /\ ve_isCapturing' = FALSE
  /\ \/ ve_host' = "stop_join"
     \/ ve_host' = "destroy_join"
  /\ UNCHANGED <<ve_held, ve_thread, ve_frameRate, ve_frameInterval, ve_now,
                 ve_lastFrameTime, ve_lastSuccessfulFrameTime, ve_source, ve_work, ve_encoder, ve_obs>>
  /\ UNCHANGED <<clientVars, winVars, legacyVars, audioEngVars, packetVars, unitVars>>

\* VideoCaptureImpl::stop: join, delete the thread, cleanup(), stopCallback
ve_stop_join ==
  /\ ve_host \in {"stop_join", "destroy_join"}
  /\ JoinReturns(ve_thread)
  /\ ve_thread' = "none"
  /\ ve_held' = {}
  /\ ve_host' = IF ve_host = "stop_join" THEN "stopped" ELSE "destroyed"
  /\ ve_obs' = [ve_obs EXCEPT !.stops = IF ve_host = "stop_join" THEN 1 ELSE @]
  /\ UNCHANGED <<ve_isCapturing, ve_frameRate, ve_frameInterval, ve_now,
                 ve_lastFrameTime, ve_lastSuccessfulFrameTime, ve_source, ve_work, ve_encoder>>
  /\ UNCHANGED <<clientVars, winVars, legacyVars, audioEngVars, packetVars, unitVars>>

\* VideoCaptureImpl::~VideoCaptureImpl of an instance that is not capturing
ve_destroy ==
  /\ ve_host \in {"new", "failed", "stopped"}
  /\ ve_host' = "destroyed"
  /\ UNCHANGED <<ve_isCapturing, ve_held, ve_thread, ve_frameRate,
                 ve_frameInterval, ve_now, ve_lastFrameTime,
                 ve_lastSuccessfulFrameTime, ve_source, ve_work, ve_encoder, ve_obs>>
  /\ UNCHANGED <<clientVars, winVars, legacyVars, audioEngVars, packetVars, unitVars>>

\* captureThreadProc: lastFrameTime = now() before the loop
ve_thread_entry ==
  /\ ve_thread = "entry"
  /\ ve_lastFrameTime' = ve_now
  /\ ve_thread' = "top"
  /\ UNCHANGED <<ve_host, ve_isCapturing, ve_held, ve_frameRate, ve_frameInterval,
                 ve_now, ve_lastSuccessfulFrameTime, ve_source, ve_work, ve_encoder, ve_obs>>
  /\ UNCHANGED <<clientVars, winVars, legacyVars, audioEngVars, packetVars, unitVars>>

\* captureThreadProc: while (isCapturing.load()), the pacing sleep, and
\* lastFrameTime = currentTime; the thread is then about to call captureFrame
ve_thread_top ==
  /\ ve_thread = "top"
  /\ IF ~ve_isCapturing
       THEN /\ ve_thread' = "done"
            /\ UNCHANGED <<ve_now, ve_lastFrameTime, ve_obs>>
       ELSE LET elapsed == ve_now - ve_lastFrameTime
                t == Tick(SleepFor(elapsed, ve_frameInterval)) IN
            /\ ve_now' = t
            /\ ve_lastFrameTime' = t
            /\ ve_thread' = "capture"
            /\ ve_obs' = [ve_obs EXCEPT
                 !.lastAttempt = t,
                 !.gap = IF ve_obs.lastAttempt = 0 - 1 THEN 0 - 1 ELSE t - ve_obs.lastAttempt,
                 !.busy = IF ve_obs.lastAttempt = 0 - 1 THEN 0 ELSE ve_now - ve_obs.lastAttempt]
  /\ UNCHANGED <<ve_host, ve_isCapturing, ve_held, ve_frameRate, ve_frameInterval,
                 ve_lastSuccessfulFrameTime, ve_source, ve_work, ve_encoder>>
  /\ UNCHANGED <<clientVars, winVars, legacyVars, audioEngVars, packetVars, unitVars>>

\* captureFrame: false without duplication; a frame sets
\* lastSuccessfulFrameTime; a timeout lasts timeoutMs and is forced into a
\* frame or returns false; any other failure returns false.  On false the loop
\* continues, and no callback is made.
ve_thread_capture ==
  /\ ve_thread = "capture"
  /\ IF "duplication" \notin ve_held \/ ve_source = "broken"
       THEN /\ ve_thread' = "top"
            /\ UNCHANGED <<ve_now, ve_lastSuccessfulFrameTime>>
       ELSE \/ /\ ve_source = "ready"
               /\ ve_lastSuccessfulFrameTime' = ve_now
               /\ ve_thread' = "process"
               /\ UNCHANGED ve_now
            \/ /\ ve_source = "timeout"
               /\ ve_now' = Tick(TimeoutMs(ve_frameInterval))
               /\ ve_thread' =
                    IF ForcedFrame(ve_now' - ve_lastSuccessfulFrameTime, ve_frameInterval)
                      THEN "process" ELSE "top"
               /\ UNCHANGED ve_lastSuccessfulFrameTime
  /\ UNCHANGED <<ve_host, ve_isCapturing, ve_held, ve_frameRate, ve_frameInterval,
                 ve_lastFrameTime, ve_source, ve_work, ve_encoder, ve_obs>>
  /\ UNCHANGED <<clientVars, winVars, legacyVars, audioEngVars, packetVars, unitVars>>

\* captureThreadProc: a failure of processFrame or encodeFrameToJPEG invokes
\* the exit callback when isCapturing is still set, and the loop continues
VideoEngError ==
  /\ ve_thread' = "top"
  /\ ve_obs' = [ve_obs EXCEPT !.exits = IF ve_isCapturing THEN 1 ELSE @]

\* processFrame
ve_thread_process ==
  /\ ve_thread = "process"
  /\ IF ve_encoder = "processFails"
       THEN VideoEngError
       ELSE /\ ve_thread' = "encode"
            /\ UNCHANGED ve_obs
  /\ UNCHANGED <<ve_host, ve_isCapturing, ve_held, ve_frameRate, ve_frameInterval,
                 ve_now, ve_lastFrameTime, ve_lastSuccessfulFrameTime, ve_source, ve_work, ve_encoder>>
  /\ UNCHANGED <<clientVars, winVars, legacyVars, audioEngVars, packetVars, unitVars>>

\* encodeFrameToJPEG, then videoCallback with the encoded frame
ve_thread_encode ==
  /\ ve_thread = "encode"
  /\ ve_now' = Tick(ve_work)
  /\ IF ve_encoder = "encodeFails"
       THEN VideoEngError
       ELSE /\ ve_thread' = "top"
            /\ ve_obs' = [ve_obs EXCEPT
                 !.frames = IF @ < FrameCap THEN @ + 1 ELSE @,
                 !.firstFrame = IF @ = 0 - 1 THEN ve_now' ELSE @]
  /\ UNCHANGED <<ve_host, ve_isCapturing, ve_held, ve_frameRate, ve_frameInterval,
                 ve_lastFrameTime, ve_lastSuccessfulFrameTime, ve_source, ve_work, ve_encoder>>
  /\ UNCHANGED <<clientVars, winVars, legacyVars, audioEngVars, packetVars, unitVars>>

VideoEngThread ==
  \/ ve_thread_entry
  \/ ve_thread_top
  \/ ve_thread_capture
  \/ ve_thread_process
  \/ ve_thread_encode

VideoEngNext ==
  \/ ve_start
  \/ ve_screenStill
  \/ ve_deviceLost
  \/ ve_stop_flag
  \/ ve_stop_join
  \/ ve_destroy
  \/ VideoEngThread

\* ----------------------------------------------- AudioCaptureImpl on its own
\* One AudioCaptureImpl driven by a host thread: start once, stop any number
\* of times, destroy.  The capture thread is the one of Spec; here stop() is
\* taken whole, its join included.
AudioHandles == AudioReleasedByStop \cup {"enumerator", "hEvent"}

NoStart == [called |-> FALSE, config |-> NoConfig, result |-> FALSE, touched |-> {}]

AudioEngInit ==
  /\ ae_impl = NewAudio
  /\ ae_life = "new"
  /\ ae_last = NoStart
  /\ ae_freed = [h \in AudioHandles |-> 0]

\* the platform calls AudioCaptureImpl::start makes before it returns
AudioTouched(config, fail) ==
  IF ~AudioConfigValid(config) THEN {}
  ELSE LET last == IF fail = "none" THEN Len(AudioSteps) ELSE AudioStepIndex(fail) IN
       {AudioSteps[i].name : i \in 1..last}

\* members a stop() releases now: those that are set
AudioFreedBy(a) ==
  (a.held \cap AudioReleasedByStop)
    \cup (IF a.hEvent \in {"nonsignaled", "signaled"} THEN {"hEvent"} ELSE {})

\* AudioCaptureImpl::stop: the flag, the join, and the releases
AudioStop(a) ==
  AudioRelease([a EXCEPT !.isCapturing = FALSE, !.captureThread = FALSE])

ae_start ==
  /\ ae_life = "new"
  /\ \E config \in Configs, fail \in AudioFailures \cup {"none"} :
       LET r == AudioStart(config, fail) IN
       /\ ae_impl' = r.impl
       /\ ae_life' = IF r.result THEN "started" ELSE "failed"
       /\ ae_last' = [called |-> TRUE, config |-> config, result |-> r.result,
                      touched |-> AudioTouched(config, fail)]
       \* enumerator->Release() after the endpoint was obtained
       /\ ae_freed' = [ae_freed EXCEPT !["enumerator"] =
                         IF "device" \in r.impl.held THEN 1 ELSE @]
  /\ UNCHANGED <<clientVars, winVars, legacyVars, videoEngVars, packetVars, unitVars>>

ae_stop ==
  /\ ae_life \in {"started", "failed", "stopped"}
  /\ ae_impl' = AudioStop(ae_impl)
  /\ ae_freed' = [h \in AudioHandles |->
                    IF h \in AudioFreedBy(ae_impl) THEN ae_freed[h] + 1 ELSE ae_freed[h]]
  /\ ae_life' = "stopped"
  /\ UNCHANGED ae_last
  /\ UNCHANGED <<clientVars, winVars, legacyVars, videoEngVars, packetVars, unitVars>>

\* AudioCaptureImpl::~AudioCaptureImpl: stop() only if isCapturing
ae_destroy ==
  /\ ae_life # "destroyed"
  /\ IF ae_impl.isCapturing
       THEN /\ ae_impl' = AudioStop(ae_impl)
            /\ ae_freed' = [h \in AudioHandles |->
                              IF h \in AudioFreedBy(ae_impl) THEN ae_freed[h] + 1 ELSE ae_freed[h]]
       ELSE UNCHANGED <<ae_impl, ae_freed>>
  /\ ae_life' = "destroyed"
  /\ UNCHANGED ae_last
  /\ UNCHANGED <<clientVars, winVars, legacyVars, videoEngVars, packetVars, unitVars>>

AudioEngNext == ae_start \/ ae_stop \/ ae_destroy

\* ------------------------- AudioCaptureImpl::captureThreadProc: one packet
\* The conversion of one packet returned by IAudioCaptureClient::GetBuffer.
\* A sample is a whole number of sixths of full scale (6 is 1.0), so that the
\* mean of two or three samples is exact.
MaxFrames == 2

SampleValues == {0 - 6, 0, 6}

NativeChannels == {1, 2, 3}
NativeRates == {16000, 48000}

\* audioChannels and audioSampleRate that AudioCaptureImpl::start accepts
TargetChannels == {1, 2}
TargetRates == {16000, 48000}

SampleSeqs(len) == [1..len -> SampleValues]

\* the mix format, the configuration, and the packet: numFramesInPacket
\* frames of nChannels interleaved samples, and the SILENT flag
Packets ==
  UNION { [nChannels : {n}, nSamplesPerSec : NativeRates,
           audioChannels : TargetChannels, audioSampleRate : TargetRates,
           numFramesInPacket : {f}, silent : BOOLEAN,
           audioBufferOriginal : SampleSeqs(n * f)]
          : n \in NativeChannels, f \in 0..MaxFrames }

NoOut ==
  [delivered |-> FALSE, channels |-> 0, sampleRate |-> 0, frames |-> 0,
   buffer |-> <<>>, holds |-> 0, converted |-> <<>>, resampled |-> FALSE,
   srcIn |-> <<>>, srcReads |-> 0, exit |-> FALSE, legacyMono |-> <<>>,
   srcGen |-> 0, legacyGen |-> 0, legacyFrames |-> 0]

PacketInit ==
  /\ pk_in = [nChannels |-> 1, nSamplesPerSec |-> 48000, audioChannels |-> 1,
              audioSampleRate |-> 48000, numFramesInPacket |-> 0, silent |-> TRUE,
              audioBufferOriginal |-> <<>>]
  /\ pk_out = NoOut

RECURSIVE SumTo(_, _, _)
SumTo(s, from, n) == IF n = 0 THEN 0 ELSE s[from] + SumTo(s, from + 1, n - 1)

\* audiocaptureimpl.cc:317-324: audioBufferConverted[i] = sum / nChannels
Downmix_left(original, nChannels, frames) ==
  [i \in 1..frames |-> original[(i - 1) * nChannels + 1]]

Downmix(original, nChannels, frames) ==
  [i \in 1..frames |-> SumTo(original, (i - 1) * nChannels + 1, nChannels) \div nChannels]

\* captureclient.cc:270-273: monoSample = 0.5 * (L + R)
LegacyDownmix(original, frames) ==
  [i \in 1..frames |-> (original[(i - 1) * 2 + 1] + original[(i - 1) * 2 + 2]) \div 2]

\* audiocaptureimpl.cc:316-327: the channel conversion
Converted(p) ==
  IF p.nChannels > 1 /\ p.audioChannels = 1
    THEN Downmix(p.audioBufferOriginal, p.nChannels, p.numFramesInPacket)
    ELSE p.audioBufferOriginal

\* audiocaptureimpl.cc:330
NeedsResample_always(native, target) == TRUE

NeedsResample(native, target) == native # target

\* audiocaptureimpl.cc:336: ceil(numFramesInPacket * src_ratio)
OutputFrames(frames, native, target) == (frames * target + native - 1) \div native

DeliveredFrames_expected(gen, outputFrames) == outputFrames

\* audiocaptureimpl.cc:350-356: the frame count handed to audioCallback after
\* resampling is srcData.output_frames_gen
DeliveredFrames(gen, outputFrames) == gen

\* captureclient.cc:252-255: requiredResampledFrames as resize() and the
\* (long) cast take it, the fraction cut off
RequiredResampledFrames(frames, native, target) == (frames * target) \div native

\* captureclient.cc:289-291, 52: resampledMonoAudio.size() after the resize to
\* output_frames_gen
LegacyDeliveredFrames(gen, required) == IF gen # required THEN gen ELSE required

\* what AudioCaptureClient asks its resampler for, given the same packet of a
\* stereo device and a mono target
LegacyRequired(p) ==
  IF p.nChannels = 2 /\ p.audioChannels = 1
    THEN RequiredResampledFrames(p.numFramesInPacket, p.nSamplesPerSec,
                                 p.audioSampleRate)
    ELSE 0

\* audiocaptureimpl.cc:307-366.  src_process reads input_frames frames of as
\* many channels as the converter was created with (src_new with
\* config.audioChannels) and reports an error or the frames it generated; when
\* it reads past the end of its input anything may come back.
Deliver(p, out) ==
  LET conv == Converted(p)
      \* what AudioCaptureClient makes of the same packet of a stereo device
      mono == IF p.nChannels = 2 /\ p.audioChannels = 1
                THEN LegacyDownmix(p.audioBufferOriginal, p.numFramesInPacket)
                ELSE <<>>
  IN
  IF p.silent \/ p.numFramesInPacket = 0 THEN out = NoOut
  ELSE IF NeedsResample(p.nSamplesPerSec, p.audioSampleRate)
    THEN \E error \in BOOLEAN,
            gen \in 0..OutputFrames(p.numFramesInPacket, p.nSamplesPerSec, p.audioSampleRate),
            lgen \in 0..LegacyRequired(p) :
           out = [delivered |-> ~error /\ gen > 0,
                  channels |-> IF ~error /\ gen > 0 THEN p.audioChannels ELSE 0,
                  sampleRate |-> IF ~error /\ gen > 0 THEN p.audioSampleRate ELSE 0,
                  frames |-> IF ~error /\ gen > 0
                               THEN DeliveredFrames(gen,
                                      OutputFrames(p.numFramesInPacket,
                                                   p.nSamplesPerSec, p.audioSampleRate))
                               ELSE 0,
                  buffer |-> <<>>,
                  holds |-> IF ~error /\ gen > 0 THEN gen * p.audioChannels ELSE 0,
                  srcGen |-> gen,
                  legacyGen |-> lgen,
                  legacyFrames |-> LegacyDeliveredFrames(lgen, LegacyRequired(p)),
                  converted |-> conv,
                  resampled |-> TRUE,
                  srcIn |-> conv,
                  srcReads |-> p.numFramesInPacket * p.audioChannels,
                  exit |-> error,
                  legacyMono |-> mono]
    ELSE \E lgen \in 0..LegacyRequired(p) :
         out = [delivered |-> TRUE,
                srcGen |-> 0,
                legacyGen |-> lgen,
                legacyFrames |-> LegacyDeliveredFrames(lgen, LegacyRequired(p)),
                channels |-> p.audioChannels,
                sampleRate |-> p.nSamplesPerSec,
                frames |-> p.numFramesInPacket,
                buffer |-> conv,
                holds |-> Len(conv),
                converted |-> conv,
                resampled |-> FALSE,
                srcIn |-> <<>>,
                srcReads |-> 0,
                exit |-> FALSE,
                legacyMono |-> mono]

\* the packet is converted and handed to audioCallback
pk_process ==
  /\ pk_out = NoOut
  /\ Deliver(pk_in, pk_out')
  /\ pk_out' # NoOut
  /\ UNCHANGED pk_in
  /\ UNCHANGED <<clientVars, winVars, legacyVars, videoEngVars, audioEngVars, unitVars>>

PacketNext == pk_process

\* ------------------------------------------------- one video frame delivered
\* MediaCaptureConfigC (capture.h): the fields that describe the picture.
\* quality is the tier, qualityValue "overrides quality enum if > 0",
\* imageFormat is 0 for jpeg and 1 for raw.
VideoConfigs ==
  [quality : {0 - 1, 0, 1, 2, 3}, qualityValue : {0, 50}, imageFormat : {0, 1}]

\* what the screen source hands over: a BGRA picture, rows possibly padded
CapturedFrames ==
  { f \in [width : {1, 2}, height : {1, 2}, bytesPerRow : {4, 8, 16}] :
      f.bytesPerRow >= 4 * f.width }

\* sizes the JPEG encoder can produce for a picture
JpegSizes == {1, 5}

NoFrameOut ==
  [delivered |-> FALSE, engine |-> "none", encoderQuality |-> 0,
   format |-> "none", payload |-> "none", size |-> 0]

FrameInit ==
  /\ fr_config = [quality |-> 1, qualityValue |-> 0, imageFormat |-> 0]
  /\ fr_frame = [width |-> 1, height |-> 1, bytesPerRow |-> 4]
  /\ fr_out = NoFrameOut

\* the quality captureThreadProc passes to encodeFrameToJPEG
EncoderQuality(config) ==
  CASE config.quality = 0 -> 95
    [] config.quality = 1 -> 85
    [] config.quality = 2 -> 75
    [] OTHER -> 90

\* VideoCaptureImpl::captureThreadProc, after processFrame: the picture is
\* encoded and, unless the encoder failed or produced nothing, delivered
fr_encode ==
  /\ fr_out = NoFrameOut
  /\ \E ok \in BOOLEAN, size \in JpegSizes :
       fr_out' = [delivered |-> ok,
                  engine |-> "VideoCaptureImpl",
                  encoderQuality |-> EncoderQuality(fr_config),
                  format |-> IF ok THEN "jpeg" ELSE "none",
                  payload |-> IF ok THEN "jpeg" ELSE "none",
                  size |-> IF ok THEN size ELSE 0]
  /\ UNCHANGED <<fr_config, fr_frame, targetVars, handoffVars, windowVars, drainVars,
                 timeoutVars>>
  /\ UNCHANGED <<clientVars, winVars, legacyVars, videoEngVars, audioEngVars, packetVars, lateVars>>

\* MediaCaptureWin::captureThreadWorker: the buffer of CaptureScreen is
\* handed over as it is
fr_win_frame ==
  /\ fr_out = NoFrameOut
  /\ \E ok \in BOOLEAN :
       fr_out' = [delivered |-> ok,
                  engine |-> "MediaCaptureWin",
                  encoderQuality |-> 0,
                  format |-> IF ok THEN "bgra" ELSE "none",
                  payload |-> IF ok THEN "bgra" ELSE "none",
                  size |-> IF ok THEN fr_frame.height * fr_frame.bytesPerRow ELSE 0]
  /\ UNCHANGED <<fr_config, fr_frame, targetVars, handoffVars, windowVars, drainVars,
                 timeoutVars>>
  /\ UNCHANGED <<clientVars, winVars, legacyVars, videoEngVars, audioEngVars, packetVars, lateVars>>

FrameNext == fr_encode \/ fr_win_frame

\* ------------------------------------------------- resolving the capture target
\* the desktop: two displays (DXGI outputs 0 and 1 are displays 1 and 2), two
\* windows, each on one display, the second owned by the process "app"
Displays == {1, 2}
Windows == {101, 102}
DisplayOf(hwnd) == IF hwnd = 101 THEN 2 ELSE 1
WindowOfApp(name) == IF name = "app" THEN 102 ELSE 0

\* the selectors of MediaCaptureConfigC; bundleID "null" is the null pointer
TargetConfigs ==
  [displayID : {0, 1, 2, 9}, windowID : {0, 101, 102, 999},
   bundleID : {"null", "app", "nope"}]

NoTarget ==
  [engine |-> "none", ok |-> FALSE, selector |-> "none", output |-> 0,
   window |-> 0]

TargetInit ==
  /\ tg_config = [displayID |-> 0, windowID |-> 0, bundleID |-> "null"]
  /\ tg_out = NoTarget

\* MediaCaptureWin::findCaptureTarget: the selector that decides, whether its
\* target exists, and the config.windowID it leaves behind
findCaptureTarget(config) ==
  IF config.displayID > 0
    THEN [selector |-> "display", ok |-> config.displayID \in Displays,
          windowID |-> config.windowID]
  ELSE IF config.windowID > 0
    THEN [selector |-> "window", ok |-> config.windowID \in Windows,
          windowID |-> config.windowID]
  ELSE IF config.bundleID # "null"
    THEN [selector |-> "bundle", ok |-> WindowOfApp(config.bundleID) # 0,
          windowID |-> IF WindowOfApp(config.bundleID) # 0
                         THEN WindowOfApp(config.bundleID)
                         ELSE config.windowID]
  ELSE [selector |-> "none", ok |-> FALSE, windowID |-> config.windowID]

\* MediaCaptureWin::captureThreadWorker: the DXGI output that is duplicated,
\* 0 when none is found
WorkerOutput(displayID, windowID) ==
  IF displayID > 0
    THEN IF displayID \in Displays THEN displayID ELSE 0
  ELSE IF windowID > 0
    THEN IF windowID \in Windows THEN DisplayOf(windowID) ELSE 0
  ELSE 0

\* VideoCaptureImpl::setupDuplication: the DXGI output that is duplicated
DuplicatedOutput(displayID) ==
  LET outputIndex == IF displayID > 0 THEN displayID - 1 ELSE 0
  IN  IF outputIndex + 1 \in Displays THEN outputIndex + 1 ELSE 0

\* startMediaCapture: MediaCaptureWin::startCapture finds the target and its
\* worker thread opens the output to duplicate
tg_win_start ==
  /\ tg_out = NoTarget
  /\ LET found == findCaptureTarget(tg_config)
         output == WorkerOutput(tg_config.displayID, found.windowID)
     IN  /\ tg_config' = [tg_config EXCEPT !.windowID = found.windowID]
         /\ tg_out' = [engine |-> "MediaCaptureWin",
                       ok |-> found.ok /\ output # 0,
                       selector |-> found.selector,
                       output |-> IF found.ok THEN output ELSE 0,
                       window |-> IF found.ok /\ found.selector # "display"
                                    THEN found.windowID ELSE 0]
  /\ UNCHANGED <<frameVars, handoffVars, windowVars, drainVars, timeoutVars>>
  /\ UNCHANGED <<clientVars, winVars, legacyVars, videoEngVars, audioEngVars, packetVars, lateVars>>

\* MediaCaptureClient::startCapture starts video capture when a display or a
\* window is selected; VideoCaptureImpl::start reads config.displayID only
tg_video_start ==
  /\ tg_out = NoTarget
  /\ tg_config.displayID > 0 \/ tg_config.windowID > 0
  /\ LET output == DuplicatedOutput(tg_config.displayID)
     IN  tg_out' = [engine |-> "VideoCaptureImpl",
                    ok |-> output # 0,
                    selector |-> "display",
                    output |-> output,
                    window |-> 0]
  /\ UNCHANGED tg_config
  /\ UNCHANGED <<frameVars, handoffVars, windowVars, drainVars, timeoutVars>>
  /\ UNCHANGED <<clientVars, winVars, legacyVars, videoEngVars, audioEngVars, packetVars, lateVars>>

TargetNext == tg_win_start \/ tg_video_start

\* ------------------------------------------------- hand-off to the consumer
\* frames each engine captures in one run
MaxCaptured == 4
\* max_queue_size of the video thread-safe function (8 in the binding)
VideoQueueSize == 2

Engines == {"video", "audio"}

\* max_queue_size per engine; 0 is unlimited
QueueSize(e) == IF e = "video" THEN VideoQueueSize ELSE 0

HandoffInit ==
  /\ hq_isCapturing = TRUE
  /\ hq_captured = [e \in Engines |-> 0]
  /\ hq_queue = [e \in Engines |-> <<>>]
  /\ hq_emitted = [e \in Engines |-> <<>>]

Enqueue_front(q, f) == <<f>> \o q

\* napi_call_threadsafe_function: the call is put at the back of the queue
Enqueue(q, f) == Append(q, f)

\* Napi::ThreadSafeFunction::NonBlockingCall: refused when the queue is full
NonBlockingCall(e, q, f) ==
  IF QueueSize(e) > 0 /\ Len(q) >= QueueSize(e) THEN q ELSE Enqueue(q, f)

\* the capture thread of engine e captures its next frame and, unless the
\* engine drops it (silent or empty packet, failed conversion or encoding),
\* calls MediaCapture::VideoFrameCallback / AudioDataCallback with it, which
\* queues a copy for the JavaScript thread while the binding is capturing
hq_capture(e) ==
  /\ hq_captured[e] < MaxCaptured
  /\ hq_captured' = [hq_captured EXCEPT ![e] = @ + 1]
  /\ \E engineDelivers \in BOOLEAN :
       hq_queue' =
         IF engineDelivers /\ hq_isCapturing
           THEN [hq_queue EXCEPT ![e] = NonBlockingCall(e, @, hq_captured[e] + 1)]
           ELSE hq_queue
  /\ UNCHANGED <<hq_isCapturing, hq_emitted>>
  /\ UNCHANGED <<frameVars, targetVars, windowVars, drainVars, timeoutVars>>
  /\ UNCHANGED <<clientVars, winVars, legacyVars, videoEngVars, audioEngVars, packetVars, lateVars>>

\* the JavaScript thread runs the call at the head of a queue: emit
\* "video-frame" / "audio-data"
hq_emit(e) ==
  /\ hq_queue[e] # <<>>
  /\ hq_emitted' = [hq_emitted EXCEPT ![e] = Append(@, Head(hq_queue[e]))]
  /\ hq_queue' = [hq_queue EXCEPT ![e] = Tail(@)]
  /\ UNCHANGED <<hq_isCapturing, hq_captured>>
  /\ UNCHANGED <<frameVars, targetVars, windowVars, drainVars, timeoutVars>>
  /\ UNCHANGED <<clientVars, winVars, legacyVars, videoEngVars, audioEngVars, packetVars, lateVars>>

\* MediaCapture::StopCapture clears isCapturing_
hq_stop ==
  /\ hq_isCapturing
  /\ hq_isCapturing' = FALSE
  /\ UNCHANGED <<hq_captured, hq_queue, hq_emitted>>
  /\ UNCHANGED <<frameVars, targetVars, windowVars, drainVars, timeoutVars>>
  /\ UNCHANGED <<clientVars, winVars, legacyVars, videoEngVars, audioEngVars, packetVars, lateVars>>

HandoffNext ==
  \/ \E e \in Engines : hq_capture(e)
  \/ \E e \in Engines : hq_emit(e)
  \/ hq_stop

\* ------------------------------------------------------- window enumeration
\* widths and heights of a window rectangle (right - left, bottom - top)
WindowSizes == {0 - 5, 0, 30, 50, 60}

\* what the window manager reports for a top-level window
DesktopWindows ==
  [visible : BOOLEAN, enabled : BOOLEAN, titled : BOOLEAN, child : BOOLEAN,
   toolWindow : BOOLEAN, width : WindowSizes, height : WindowSizes]

NoWindowOut ==
  [by |-> "none", rectOk |-> FALSE, listed |-> FALSE, width |-> 0, height |-> 0]

WindowInit ==
  /\ wn_window = [visible |-> TRUE, enabled |-> TRUE, titled |-> TRUE,
                  child |-> FALSE, toolWindow |-> FALSE, width |-> 60,
                  height |-> 60]
  /\ wn_out = NoWindowOut

\* EnumWindowsProc of MediaCaptureWin.cc: TRUE when the window is pushed
EnumWindowsProc(w, rectOk) ==
  /\ w.visible
  /\ w.titled
  /\ ~(w.child \/ w.toolWindow)
  /\ rectOk
  /\ ~(w.width <= 0 \/ w.height <= 0)

\* WindowEnumProc of mediacaptureclient.cc, given the rectangle it reads
WindowEnumProc(w, width, height) ==
  /\ ~(~w.visible \/ ~w.enabled)
  /\ w.titled
  /\ ~(width < 50 \/ height < 50)

\* MediaCaptureWin::enumerateTargets (type ALL or WINDOW): EnumerateWindows
\* runs EnumWindowsProc on the window, and every window it kept is a target
wn_enumerateTargets ==
  /\ wn_out = NoWindowOut
  /\ \E rectOk \in BOOLEAN :
       LET kept == EnumWindowsProc(wn_window, rectOk)
       IN  wn_out' = [by |-> "MediaCaptureWin",
                      rectOk |-> rectOk,
                      listed |-> kept,
                      width |-> IF kept THEN wn_window.width ELSE 0,
                      height |-> IF kept THEN wn_window.height ELSE 0]
  /\ UNCHANGED wn_window
  /\ UNCHANGED <<frameVars, targetVars, handoffVars, drainVars, timeoutVars>>
  /\ UNCHANGED <<clientVars, winVars, legacyVars, videoEngVars, audioEngVars, packetVars, lateVars>>

\* WindowEnumProc called on the window.  The result of GetWindowRect is not
\* tested: when it fails the rectangle read is whatever the stack holds.
wn_WindowEnumProc ==
  /\ wn_out = NoWindowOut
  /\ \E rectOk \in BOOLEAN, w0 \in WindowSizes, h0 \in WindowSizes :
       LET width == IF rectOk THEN wn_window.width ELSE w0
           height == IF rectOk THEN wn_window.height ELSE h0
           kept == WindowEnumProc(wn_window, width, height)
       IN  wn_out' = [by |-> "WindowEnumProc",
                      rectOk |-> rectOk,
                      listed |-> kept,
                      width |-> IF kept THEN width ELSE 0,
                      height |-> IF kept THEN height ELSE 0]
  /\ UNCHANGED wn_window
  /\ UNCHANGED <<frameVars, targetVars, handoffVars, drainVars, timeoutVars>>
  /\ UNCHANGED <<clientVars, winVars, legacyVars, videoEngVars, audioEngVars, packetVars, lateVars>>

WindowNext == wn_enumerateTargets \/ wn_WindowEnumProc

\* ------------------------------------------------------- one drain cycle
\* packets the device can hold when the thread wakes up
MaxPending == 3

\* a packet is flagged silent, has no frames, or carries sound
PacketKinds == {"silent", "empty", "sound"}

PendingLists ==
  UNION { [1..n -> PacketKinds] : n \in 0..MaxPending }

AudioThreads == {"AudioCaptureImpl", "AudioCaptureClient"}

DrainInit ==
  /\ dr_engine = "AudioCaptureImpl"
  /\ dr_resample = FALSE
  /\ dr_pending = <<>>
  /\ dr_pc = "wait"
  /\ dr_calls = 0

\* WaitForSingleObject(hEvent, INFINITE) returns: the device signaled
\* readiness (or stop() set the event)
dr_wake ==
  /\ dr_pc = "wait"
  /\ dr_pc' = "drain"
  /\ UNCHANGED <<dr_engine, dr_resample, dr_pending, dr_calls>>
  /\ UNCHANGED <<frameVars, targetVars, handoffVars, windowVars, timeoutVars>>
  /\ UNCHANGED <<clientVars, winVars, legacyVars, videoEngVars, audioEngVars, packetVars, lateVars>>

\* AudioCaptureImpl::captureThreadProc, one turn of while (packetSize > 0):
\* a packet with sound is converted and handed to audioCallback, unless the
\* resampler fails or generates no frame; then ReleaseBuffer
dr_packet ==
  /\ dr_engine = "AudioCaptureImpl"
  /\ dr_pc = "drain"
  /\ dr_pending # <<>>
  /\ \E resampled \in (IF dr_resample THEN BOOLEAN ELSE {TRUE}) :
       dr_calls' = IF Head(dr_pending) = "sound" /\ resampled
                     THEN dr_calls + 1
                     ELSE dr_calls
  /\ dr_pending' = Tail(dr_pending)
  /\ UNCHANGED <<dr_engine, dr_resample, dr_pc>>
  /\ UNCHANGED <<frameVars, targetVars, handoffVars, windowVars, timeoutVars>>
  /\ UNCHANGED <<clientVars, winVars, legacyVars, videoEngVars, audioEngVars, packetVars, lateVars>>

\* GetNextPacketSize yields 0: back to the top of the outer loop
dr_drained ==
  /\ dr_engine = "AudioCaptureImpl"
  /\ dr_pc = "drain"
  /\ dr_pending = <<>>
  /\ dr_pc' = "top"
  /\ UNCHANGED <<dr_engine, dr_resample, dr_pending, dr_calls>>
  /\ UNCHANGED <<frameVars, targetVars, handoffVars, windowVars, timeoutVars>>
  /\ UNCHANGED <<clientVars, winVars, legacyVars, videoEngVars, audioEngVars, packetVars, lateVars>>

\* AudioCaptureClient::audioRetrievalThreadWorker: all pending packets are
\* retrieved and resampled into one buffer, then dataCallback is called
dr_legacy ==
  /\ dr_engine = "AudioCaptureClient"
  /\ dr_pc = "drain"
  /\ dr_pending' = <<>>
  /\ dr_calls' = dr_calls + 1
  /\ dr_pc' = "top"
  /\ UNCHANGED <<dr_engine, dr_resample>>
  /\ UNCHANGED <<frameVars, targetVars, handoffVars, windowVars, timeoutVars>>
  /\ UNCHANGED <<clientVars, winVars, legacyVars, videoEngVars, audioEngVars, packetVars, lateVars>>

DrainNext == dr_wake \/ dr_packet \/ dr_drained \/ dr_legacy

\* ------------------------------------------------- the acquisition timeout
NoTimeout == [started |-> FALSE, interval |-> 0, timeoutMs |-> 0]

TimeoutInit ==
  /\ tm_rate = [num |-> 10, den |-> 1]
  /\ tm_out = NoTimeout

\* start() with the rate, then captureFrame computes its timeout
tm_captureFrame ==
  /\ tm_out = NoTimeout
  /\ tm_out' = [started |-> TRUE,
                interval |-> FrameIntervalOf(tm_rate),
                timeoutMs |-> TimeoutMs(FrameIntervalOf(tm_rate))]
  /\ UNCHANGED tm_rate
  /\ UNCHANGED <<frameVars, targetVars, handoffVars, windowVars, drainVars>>
  /\ UNCHANGED <<clientVars, winVars, legacyVars, videoEngVars, audioEngVars, packetVars, lateVars>>

TimeoutNext == tm_captureFrame

\* ------------------------------------------- COM and the Direct3D device
\* the threads of the host that call into the engines, and the capture thread
\* MediaCaptureWin creates
HostThreads == {"main", "other"}

PlatformThreads == HostThreads \cup {"worker"}

PlatformEngines == {"VideoCaptureImpl", "AudioCaptureImpl", "MediaCaptureWin"}

Apartments == {"STA", "MTA"}

DriverTypes == {"HARDWARE", "WARP"}

\* which driver types D3D11CreateDevice can create a device for
DriverSupport == [DriverTypes -> BOOLEAN]

NoCom == [mode |-> "none", count |-> 0]

NoCalls == [tried |-> 0, init |-> 0, uninit |-> 0]

NoSetup == [ran |-> FALSE, works |-> [d \in DriverTypes |-> TRUE],
            attempts |-> <<>>, result |-> FALSE, held |-> {}]

PlatformInit ==
  /\ pf_com = [t \in PlatformThreads |-> NoCom]
  /\ pf_calls = [e \in PlatformEngines |-> [t \in PlatformThreads |-> NoCalls]]
  /\ pf_video = [life |-> "new", isElectron |-> 0, comInitialized |-> FALSE,
                 device |-> {}, setup |-> NoSetup]
  /\ pf_audio = [life |-> "new", isElectron |-> 0]
  /\ pf_win = [life |-> "new", isElectron |-> 0, device |-> {}, setup |-> NoSetup]

\* CoInitializeEx on a thread whose COM state is com: S_OK for the first
\* initialisation, S_FALSE when the thread is initialised in the same mode
\* (the call still counts and has to be balanced), RPC_E_CHANGED_MODE when it
\* is initialised in the other mode, and a failure when COM is unavailable
CoInitializeEx(com, mode, unavailable) ==
  IF unavailable THEN [hr |-> "E_OUTOFMEMORY", com |-> com]
  ELSE IF com.count = 0 THEN [hr |-> "S_OK", com |-> [mode |-> mode, count |-> 1]]
  ELSE IF com.mode = mode THEN [hr |-> "S_FALSE", com |-> [com EXCEPT !.count = @ + 1]]
  ELSE [hr |-> "RPC_E_CHANGED_MODE", com |-> com]

SUCCEEDED(hr) == hr \in {"S_OK", "S_FALSE"}

\* CoUninitialize: one initialisation of the thread less; with none left the
\* call is unbalanced and the state stays
CoUninitialize(com) ==
  IF com.count > 1 THEN [com EXCEPT !.count = @ - 1]
  ELSE NoCom

\* the calls an engine has made on a thread, after n calls of CoInitializeEx
\* of which k succeeded and u calls of CoUninitialize
Called(calls, e, t, n, k, u) ==
  [calls EXCEPT ![e][t] = [tried |-> @.tried + n, init |-> @.init + k,
                           uninit |-> @.uninit + u]]

\* config.isElectron == 1: the host has initialised COM
IsElectron_never(flag) == FALSE

IsElectron(flag) == flag = 1

\* VideoCaptureImpl::initializeCom
VideoInitializeCom(flag, com, unavailable) ==
  IF IsElectron(flag)
    THEN [result |-> TRUE, set |-> FALSE, com |-> com, tried |-> 0, init |-> 0]
    ELSE LET a == CoInitializeEx(com, "STA", unavailable)
             b == CoInitializeEx(a.com, "MTA", unavailable) IN
         IF SUCCEEDED(a.hr)
           THEN [result |-> TRUE, set |-> TRUE, com |-> a.com, tried |-> 1, init |-> 1]
         ELSE IF a.hr = "RPC_E_CHANGED_MODE"
           THEN IF SUCCEEDED(b.hr)
                  THEN [result |-> TRUE, set |-> TRUE, com |-> b.com, tried |-> 2, init |-> 1]
                  ELSE [result |-> FALSE, set |-> FALSE, com |-> b.com, tried |-> 2, init |-> 0]
         ELSE [result |-> FALSE, set |-> FALSE, com |-> a.com, tried |-> 1, init |-> 0]

\* VideoCaptureImpl::setupD3D11: D3D11CreateDevice with D3D_DRIVER_TYPE_HARDWARE
\* and, when that fails, with D3D_DRIVER_TYPE_WARP
setupD3D11(works) ==
  IF works["HARDWARE"]
    THEN [ran |-> TRUE, works |-> works, attempts |-> <<"HARDWARE">>,
          result |-> TRUE, held |-> {"HARDWARE"}]
  ELSE IF works["WARP"]
    THEN [ran |-> TRUE, works |-> works, attempts |-> <<"HARDWARE", "WARP">>,
          result |-> TRUE, held |-> {"WARP"}]
  ELSE [ran |-> TRUE, works |-> works, attempts |-> <<"HARDWARE", "WARP">>,
        result |-> FALSE, held |-> {}]

\* MediaCaptureWin::captureThreadWorker: D3D11CreateDevice with
\* D3D_DRIVER_TYPE_HARDWARE, and a failure ends the thread
WinCreateDevice(works) ==
  IF works["HARDWARE"]
    THEN [ran |-> TRUE, works |-> works, attempts |-> <<"HARDWARE">>,
          result |-> TRUE, held |-> {"HARDWARE"}]
    ELSE [ran |-> TRUE, works |-> works, attempts |-> <<"HARDWARE">>,
          result |-> FALSE, held |-> {}]

\* the host initialises COM on one of its threads, as Electron does
pf_host_init(t) ==
  /\ pf_com[t] = NoCom
  /\ pf_video.life = "new" /\ pf_audio.life = "new" /\ pf_win.life = "new"
  /\ \E mode \in Apartments : pf_com' = [pf_com EXCEPT ![t] = [mode |-> mode, count |-> 1]]
  /\ UNCHANGED <<pf_calls, pf_video, pf_audio, pf_win>>
  /\ UNCHANGED <<clientVars, winVars, legacyVars, videoEngVars, audioEngVars, packetVars, earlyUnitVars, bindingVars, reentrantVars, deviceVars>>

\* VideoCaptureImpl::start on thread t: initializeCom unless isElectron is 1,
\* setupD3D11, setupDuplication (cleanup() when it fails)
pf_video_start(t) ==
  /\ pf_video.life = "new"
  /\ \E flag \in {0, 1}, unavailable \in BOOLEAN, works \in DriverSupport,
        duplicationOk \in BOOLEAN :
       LET c == VideoInitializeCom(flag, pf_com[t], unavailable)
           d == setupD3D11(works)
           ok == c.result /\ d.result /\ duplicationOk IN
       /\ pf_com' = [pf_com EXCEPT ![t] = c.com]
       /\ pf_calls' = Called(pf_calls, "VideoCaptureImpl", t, c.tried, c.init, 0)
       /\ pf_video' = [life |-> IF ok THEN "started" ELSE "failed",
                       isElectron |-> flag,
                       comInitialized |-> c.set,
                       device |-> IF ~c.result \/ (d.result /\ ~duplicationOk)
                                    THEN {} ELSE d.held,
                       setup |-> IF c.result THEN d ELSE NoSetup]
  /\ UNCHANGED <<pf_audio, pf_win>>
  /\ UNCHANGED <<clientVars, winVars, legacyVars, videoEngVars, audioEngVars, packetVars, earlyUnitVars, bindingVars, reentrantVars, deviceVars>>

\* VideoCaptureImpl::stop: cleanup(), then uninitializeCom() when
\* comInitialized && config.isElectron != 1
VideoStopCom(v) == v.comInitialized /\ ~IsElectron(v.isElectron)

pf_video_stop(t) ==
  /\ pf_video.life \in {"started", "failed"}
  /\ pf_video' = [pf_video EXCEPT !.life = "stopped", !.device = {},
                    !.comInitialized = IF VideoStopCom(pf_video) THEN FALSE ELSE @]
  /\ pf_com' = IF VideoStopCom(pf_video)
                 THEN [pf_com EXCEPT ![t] = CoUninitialize(@)] ELSE pf_com
  /\ pf_calls' = IF VideoStopCom(pf_video)
                   THEN Called(pf_calls, "VideoCaptureImpl", t, 0, 0, 1) ELSE pf_calls
  /\ UNCHANGED <<pf_audio, pf_win>>
  /\ UNCHANGED <<clientVars, winVars, legacyVars, videoEngVars, audioEngVars, packetVars, earlyUnitVars, bindingVars, reentrantVars, deviceVars>>

\* VideoCaptureImpl::~VideoCaptureImpl: stop() when capturing, then
\* uninitializeCom() when comInitialized is still set
pf_video_destroy(t) ==
  /\ pf_video.life # "destroyed"
  /\ LET u == IF pf_video.comInitialized THEN 1 ELSE 0 IN
     /\ pf_video' = [pf_video EXCEPT !.life = "destroyed", !.comInitialized = FALSE,
                       !.device = IF pf_video.life = "started" THEN {} ELSE @]
     /\ pf_com' = IF u = 1 THEN [pf_com EXCEPT ![t] = CoUninitialize(@)] ELSE pf_com
     /\ pf_calls' = Called(pf_calls, "VideoCaptureImpl", t, 0, 0, u)
  /\ UNCHANGED <<pf_audio, pf_win>>
  /\ UNCHANGED <<clientVars, winVars, legacyVars, videoEngVars, audioEngVars, packetVars, earlyUnitVars, bindingVars, reentrantVars, deviceVars>>

\* AudioCaptureImpl::start on thread t with a valid configuration:
\* CoInitializeEx(MULTITHREADED) unless isElectron is 1; S_OK, S_FALSE and
\* RPC_E_CHANGED_MODE are accepted; a later step of start may fail
pf_audio_start(t) ==
  /\ pf_audio.life = "new"
  /\ \E flag \in {0, 1}, unavailable \in BOOLEAN, laterOk \in BOOLEAN :
       LET a == CoInitializeEx(pf_com[t], "MTA", unavailable)
           accepted == a.hr \in {"S_OK", "S_FALSE", "RPC_E_CHANGED_MODE"} IN
       IF IsElectron(flag)
         THEN /\ pf_audio' = [life |-> IF laterOk THEN "started" ELSE "failed",
                              isElectron |-> flag]
              /\ UNCHANGED <<pf_com, pf_calls>>
         ELSE /\ pf_audio' = [life |-> IF accepted /\ laterOk THEN "started" ELSE "failed",
                              isElectron |-> flag]
              /\ pf_com' = [pf_com EXCEPT ![t] = a.com]
              /\ pf_calls' = Called(pf_calls, "AudioCaptureImpl", t, 1,
                                    IF SUCCEEDED(a.hr) THEN 1 ELSE 0, 0)
  /\ UNCHANGED <<pf_video, pf_win>>
  /\ UNCHANGED <<clientVars, winVars, legacyVars, videoEngVars, audioEngVars, packetVars, earlyUnitVars, bindingVars, reentrantVars, deviceVars>>

\* AudioCaptureImpl::stop: the thread is joined and the handles are released;
\* no COM call
pf_audio_stop ==
  /\ pf_audio.life \in {"started", "failed"}
  /\ pf_audio' = [pf_audio EXCEPT !.life = "stopped"]
  /\ UNCHANGED <<pf_com, pf_calls, pf_video, pf_win>>
  /\ UNCHANGED <<clientVars, winVars, legacyVars, videoEngVars, audioEngVars, packetVars, earlyUnitVars, bindingVars, reentrantVars, deviceVars>>

\* AudioCaptureImpl::~AudioCaptureImpl: stop() when capturing; no COM call
pf_audio_destroy ==
  /\ pf_audio.life # "destroyed"
  /\ pf_audio' = [pf_audio EXCEPT !.life = "destroyed"]
  /\ UNCHANGED <<pf_com, pf_calls, pf_video, pf_win>>
  /\ UNCHANGED <<clientVars, winVars, legacyVars, videoEngVars, audioEngVars, packetVars, earlyUnitVars, bindingVars, reentrantVars, deviceVars>>

\* MediaCaptureWin::startCapture on thread t with a target that exists:
\* findCaptureTarget runs under a ComInitializer, which initialises COM and
\* uninitialises it again when it was initialised; then the thread is created
pf_win_startCapture(t) ==
  /\ pf_win.life = "new"
  /\ \E flag \in {0, 1}, unavailable \in BOOLEAN :
       LET a == CoInitializeEx(pf_com[t], "STA", unavailable) IN
       /\ pf_win' = [pf_win EXCEPT
                       !.life = IF SUCCEEDED(a.hr) THEN "spawned" ELSE "failed",
                       !.isElectron = flag]
       /\ pf_com' = [pf_com EXCEPT ![t] =
                       IF SUCCEEDED(a.hr) THEN CoUninitialize(a.com) ELSE a.com]
       /\ pf_calls' = IF SUCCEEDED(a.hr)
                        THEN Called(pf_calls, "MediaCaptureWin", t, 1, 1, 1)
                        ELSE Called(pf_calls, "MediaCaptureWin", t, 1, 0, 0)
  /\ UNCHANGED <<pf_video, pf_audio>>
  /\ UNCHANGED <<clientVars, winVars, legacyVars, videoEngVars, audioEngVars, packetVars, earlyUnitVars, bindingVars, reentrantVars, deviceVars>>

\* MediaCaptureWin::captureThreadWorker up to its loop: ComInitializer,
\* initializeCapture (CoInitializeEx once more), D3D11CreateDevice.  A failure
\* ends the thread, and ~ComInitializer uninitialises what it initialised.
pf_win_worker_setup ==
  /\ pf_win.life = "spawned"
  /\ \E unavailable \in BOOLEAN, works \in DriverSupport :
       LET a == CoInitializeEx(pf_com["worker"], "STA", unavailable)
           b == CoInitializeEx(a.com, "STA", unavailable)
           d == WinCreateDevice(works) IN
       IF ~SUCCEEDED(a.hr)
         THEN /\ pf_win' = [pf_win EXCEPT !.life = "failed"]
              /\ pf_com' = [pf_com EXCEPT !["worker"] = a.com]
              /\ pf_calls' = Called(pf_calls, "MediaCaptureWin", "worker", 1, 0, 0)
         ELSE /\ pf_win' = [pf_win EXCEPT
                              !.life = IF d.result THEN "running" ELSE "failed",
                              !.device = d.held, !.setup = d]
              /\ pf_com' = [pf_com EXCEPT !["worker"] =
                              IF d.result THEN b.com ELSE CoUninitialize(b.com)]
              /\ pf_calls' = Called(pf_calls, "MediaCaptureWin", "worker", 2, 2,
                                    IF d.result THEN 0 ELSE 1)
  /\ UNCHANGED <<pf_video, pf_audio>>
  /\ UNCHANGED <<clientVars, winVars, legacyVars, videoEngVars, audioEngVars, packetVars, earlyUnitVars, bindingVars, reentrantVars, deviceVars>>

\* MediaCaptureWin::stopCapture on thread t, and the destructor, which calls
\* it while captureInProgress is set: the worker leaves its loop, releases
\* the device and runs ~ComInitializer; after the join cleanupCapture calls
\* CoUninitialize on the calling thread
WinStopped(t, life) ==
  IF pf_win.life = "running"
    THEN /\ pf_win' = [pf_win EXCEPT !.life = life, !.device = {}]
         /\ pf_com' = [pf_com EXCEPT !["worker"] = CoUninitialize(@),
                                     ![t] = CoUninitialize(@)]
         /\ pf_calls' = Called(Called(pf_calls, "MediaCaptureWin", "worker", 0, 0, 1),
                               "MediaCaptureWin", t, 0, 0, 1)
    ELSE /\ pf_win' = [pf_win EXCEPT !.life = life]
         /\ UNCHANGED <<pf_com, pf_calls>>

pf_win_stopCapture(t) ==
  /\ pf_win.life \in {"running", "failed"}
  /\ WinStopped(t, "stopped")
  /\ UNCHANGED <<pf_video, pf_audio>>
  /\ UNCHANGED <<clientVars, winVars, legacyVars, videoEngVars, audioEngVars, packetVars, earlyUnitVars, bindingVars, reentrantVars, deviceVars>>

pf_win_destroy(t) ==
  /\ pf_win.life \in {"new", "running", "failed", "stopped"}
  /\ WinStopped(t, "destroyed")
  /\ UNCHANGED <<pf_video, pf_audio>>
  /\ UNCHANGED <<clientVars, winVars, legacyVars, videoEngVars, audioEngVars, packetVars, earlyUnitVars, bindingVars, reentrantVars, deviceVars>>

PlatformNext ==
  \/ \E t \in HostThreads : pf_host_init(t)
  \/ \E t \in HostThreads : pf_video_start(t)
  \/ \E t \in HostThreads : pf_video_stop(t)
  \/ \E t \in HostThreads : pf_video_destroy(t)
  \/ \E t \in HostThreads : pf_audio_start(t)
  \/ pf_audio_stop
  \/ pf_audio_destroy
  \/ \E t \in HostThreads : pf_win_startCapture(t)
  \/ pf_win_worker_setup
  \/ \E t \in HostThreads : pf_win_stopCapture(t)
  \/ \E t \in HostThreads : pf_win_destroy(t)

\* ------------------------------------------- the binding's StartCapture / StopCapture
\* StartCapture calls made on one binding object
MaxStarts == 4

\* the class behind the capture handle
SessionKinds == {"MediaCaptureWin", "MediaCaptureClient"}

\* how the native start turns out: every engine starts, one of the two
\* engines of MediaCaptureClient fails, or none starts
StartOutcomes == {"all", "one", "none"}

NativeThreadLive == bd_thread \in {"setup", "loop", "inExit"}

BindingInit ==
  /\ bd_session = "none"
  /\ bd_isCapturing = FALSE
  /\ bd_tsfn = FALSE
  /\ bd_context = "none"
  /\ bd_promise = "none"
  /\ bd_js = "idle"
  /\ bd_inProgress = FALSE
  /\ bd_thread = "none"
  /\ bd_starts = 0

\* MediaCapture::MediaCapture: captureHandle_ = createMediaCapture(), an
\* instance of the session class the binding is linked with
bd_create ==
  /\ bd_session = "none"
  /\ \E kind \in SessionKinds : bd_session' = kind
  /\ UNCHANGED <<bd_isCapturing, bd_tsfn, bd_context, bd_promise, bd_js,
                 bd_inProgress, bd_thread, bd_starts>>
  /\ UNCHANGED <<clientVars, winVars, legacyVars, videoEngVars, audioEngVars, packetVars, earlyUnitVars, platformVars, reentrantVars, deviceVars>>

\* MediaCapture::ExitCallback: the context is deleted when the callback
\* returns, isCapturing_.exchange(false), and SafeShutdown, which finds the
\* flag cleared, calls no stopMediaCapture and aborts the thread-safe functions
bd_ExitCallback ==
  /\ bd_isCapturing' = FALSE
  /\ bd_context' = "deleted"
  /\ bd_tsfn' = FALSE

\* MediaCapture::StartCapture: the thread-safe functions are created,
\* isCapturing_ = true, startMediaCapture, and the promise of the start is
\* resolved.  MediaCaptureWin::startCapture fails while capture is in
\* progress or without a target, and startMediaCapture then invokes the exit
\* callback; otherwise it creates the worker.  MediaCaptureClient::startCapture
\* invokes the exit callback for the engine that fails and runs the other.
bd_StartCapture ==
  /\ bd_session # "none"
  /\ bd_js = "idle"
  \* the host has awaited the promise of its last StopCapture
  /\ bd_promise \in {"none", "resolved"}
  /\ bd_starts < MaxStarts
  /\ bd_starts' = bd_starts + 1
  /\ \E outcome \in StartOutcomes :
       IF bd_inProgress \/ outcome = "none"
         THEN /\ bd_ExitCallback
              /\ UNCHANGED <<bd_inProgress, bd_thread>>
       ELSE IF outcome = "one" /\ bd_session = "MediaCaptureClient"
         THEN /\ bd_ExitCallback
              /\ bd_inProgress' = TRUE
              /\ bd_thread' = "loop"
       ELSE /\ outcome = "all"
            /\ bd_isCapturing' = TRUE
            /\ bd_context' = "live"
            /\ bd_tsfn' = TRUE
            /\ bd_inProgress' = TRUE
            /\ bd_thread' = IF bd_session = "MediaCaptureWin" THEN "setup" ELSE "loop"
  /\ bd_promise' = "none"
  /\ UNCHANGED <<bd_session, bd_js>>
  /\ UNCHANGED <<clientVars, winVars, legacyVars, videoEngVars, audioEngVars, packetVars, earlyUnitVars, platformVars, reentrantVars, deviceVars>>

\* StopMediaCaptureTrampoline and RequestStopFromBackgroundThread: the
\* resolution is queued on tsfn_error_, or dropped when that is gone
Trampoline == IF bd_tsfn THEN "queued" ELSE "pending"

\* MediaCapture::StopCapture: resolved at once when isCapturing_ is false;
\* otherwise the flag is cleared and stopMediaCapture is called, which calls
\* back at once when the session is not capturing and else clears its flag
\* and joins the capture thread
bd_StopCapture ==
  /\ bd_js = "idle"
  /\ bd_promise \in {"none", "resolved"}
  /\ IF ~bd_isCapturing
       THEN /\ bd_promise' = "resolved"
            /\ UNCHANGED <<bd_isCapturing, bd_inProgress, bd_js>>
       ELSE /\ bd_isCapturing' = FALSE
            /\ IF ~bd_inProgress
                 THEN /\ bd_promise' = Trampoline
                      /\ UNCHANGED <<bd_inProgress, bd_js>>
                 ELSE /\ bd_inProgress' = FALSE
                      /\ bd_promise' = "pending"
                      /\ bd_js' = "joining"
  /\ UNCHANGED <<bd_session, bd_tsfn, bd_context, bd_thread, bd_starts>>
  /\ UNCHANGED <<clientVars, winVars, legacyVars, videoEngVars, audioEngVars, packetVars, earlyUnitVars, platformVars, reentrantVars, deviceVars>>

\* stopCapture: the join returns, the thread object is deleted and the stop
\* callback runs
bd_stop_joined ==
  /\ bd_js = "joining"
  /\ bd_thread \in {"none", "done"}
  /\ bd_thread' = "none"
  /\ bd_js' = "idle"
  /\ bd_promise' = Trampoline
  /\ UNCHANGED <<bd_session, bd_isCapturing, bd_tsfn, bd_context, bd_inProgress, bd_starts>>
  /\ UNCHANGED <<clientVars, winVars, legacyVars, videoEngVars, audioEngVars, packetVars, earlyUnitVars, platformVars, reentrantVars, deviceVars>>

\* ProcessStopMediaCaptureRequest on the JavaScript thread
bd_ProcessStop ==
  /\ bd_js = "idle"
  /\ bd_promise = "queued"
  /\ bd_promise' = "resolved"
  /\ bd_tsfn' = FALSE
  /\ UNCHANGED <<bd_session, bd_isCapturing, bd_context, bd_js, bd_inProgress, bd_thread, bd_starts>>
  /\ UNCHANGED <<clientVars, winVars, legacyVars, videoEngVars, audioEngVars, packetVars, earlyUnitVars, platformVars, reentrantVars, deviceVars>>

\* MediaCaptureWin::captureThreadWorker before its loop: a setup step fails
\* and the exit callback is invoked, or the loop is entered
bd_worker_setup ==
  /\ bd_thread = "setup"
  /\ \/ /\ bd_thread' = "loop"
        /\ UNCHANGED <<bd_isCapturing, bd_context, bd_tsfn>>
     \/ /\ bd_thread' = "inExit"
        /\ bd_ExitCallback
  /\ UNCHANGED <<bd_session, bd_promise, bd_js, bd_inProgress, bd_starts>>
  /\ UNCHANGED <<clientVars, winVars, legacyVars, videoEngVars, audioEngVars, packetVars, earlyUnitVars, platformVars, reentrantVars, deviceVars>>

\* VideoCaptureImpl::captureThreadProc: processFrame or encodeFrameToJPEG
\* fails and the exit callback is invoked while isCapturing is set
bd_worker_frameError ==
  /\ bd_session = "MediaCaptureClient"
  /\ bd_thread = "loop"
  /\ bd_inProgress
  /\ bd_thread' = "inExit"
  /\ bd_ExitCallback
  /\ UNCHANGED <<bd_session, bd_promise, bd_js, bd_inProgress, bd_starts>>
  /\ UNCHANGED <<clientVars, winVars, legacyVars, videoEngVars, audioEngVars, packetVars, earlyUnitVars, platformVars, reentrantVars, deviceVars>>

\* the exit callback returns (SafeShutdown sleeps 200 ms first): the worker
\* of MediaCaptureWin clears captureInProgress and ends, the capture thread
\* of VideoCaptureImpl continues with the next frame
bd_worker_exitReturns ==
  /\ bd_thread = "inExit"
  /\ IF bd_session = "MediaCaptureWin"
       THEN bd_inProgress' = FALSE /\ bd_thread' = "done"
       ELSE bd_thread' = "loop" /\ UNCHANGED bd_inProgress
  /\ UNCHANGED <<bd_session, bd_isCapturing, bd_tsfn, bd_context, bd_promise, bd_js, bd_starts>>
  /\ UNCHANGED <<clientVars, winVars, legacyVars, videoEngVars, audioEngVars, packetVars, earlyUnitVars, platformVars, reentrantVars, deviceVars>>

\* the loop condition is found false
bd_worker_done ==
  /\ bd_thread = "loop"
  /\ ~bd_inProgress
  /\ bd_thread' = "done"
  /\ UNCHANGED <<bd_session, bd_isCapturing, bd_tsfn, bd_context, bd_promise, bd_js,
                 bd_inProgress, bd_starts>>
  /\ UNCHANGED <<clientVars, winVars, legacyVars, videoEngVars, audioEngVars, packetVars, earlyUnitVars, platformVars, reentrantVars, deviceVars>>

BindingNext ==
  \/ bd_create
  \/ bd_StartCapture
  \/ bd_StopCapture
  \/ bd_stop_joined
  \/ bd_ProcessStop
  \/ bd_worker_setup
  \/ bd_worker_frameError
  \/ bd_worker_exitReturns
  \/ bd_worker_done

\* ------------------------------------------------------------ stop() and start() called from a callback
\* One session whose capture thread runs a host callback (frame or exit),
\* and the host code inside that callback calls stop() or start() on the
\* session, while the host's own thread may call stop() as well.

MaxReentrant == 2

ReentrantSessions ==
  { [kind |-> "MediaCaptureClient", on |-> "audio"],
    [kind |-> "MediaCaptureClient", on |-> "video"],
    [kind |-> "MediaCaptureWin", on |-> "worker"] }

ReentrantInit ==
  /\ rn_kind = "none"
  /\ rn_on = "none"
  /\ rn_isCapturing = FALSE
  /\ rn_mutex = "free"
  /\ rn_thread = "none"
  /\ rn_cb = "none"
  /\ rn_op = "none"
  /\ rn_peer = "none"
  /\ rn_host = "idle"
  /\ rn_calls = 0

\* std::thread::join() on the calling thread: the standard's error condition
\* resource_deadlock_would_occur, thrown as std::system_error.
JoinSelf == "terminated"

\* startCapture has returned true: the engine threads run
rn_start ==
  /\ rn_kind = "none"
  /\ \E s \in ReentrantSessions :
       /\ rn_kind' = s.kind
       /\ rn_on' = s.on
       /\ rn_peer' = IF s.kind = "MediaCaptureClient" THEN "running" ELSE "none"
  /\ rn_isCapturing' = TRUE
  /\ rn_thread' = "loop"
  /\ UNCHANGED <<rn_mutex, rn_cb, rn_op, rn_host, rn_calls>>
  /\ UNCHANGED <<clientVars, winVars, legacyVars, videoEngVars, audioEngVars, packetVars, earlyUnitVars, platformVars, bindingVars, deviceVars>>

\* the capture thread invokes a host callback; MediaCaptureWin's worker
\* holds captureMutex for the whole loop iteration, the engines hold nothing
rn_callback ==
  /\ rn_thread = "loop"
  /\ rn_calls < MaxReentrant
  /\ \E cb \in {"frame", "exit"} :
       /\ rn_cb' = cb
       /\ IF rn_kind = "MediaCaptureWin" /\ cb = "frame"
            THEN rn_mutex = "free" /\ rn_mutex' = "thread"
            ELSE UNCHANGED rn_mutex
  /\ rn_thread' = "callback"
  /\ UNCHANGED <<rn_kind, rn_on, rn_isCapturing, rn_op, rn_peer, rn_host, rn_calls>>
  /\ UNCHANGED <<clientVars, winVars, legacyVars, videoEngVars, audioEngVars, packetVars, earlyUnitVars, platformVars, bindingVars, deviceVars>>

\* the host code in the callback calls stop() or start() on the session
rn_call ==
  /\ rn_thread = "callback"
  /\ rn_op = "none"
  /\ \E op \in {"stop", "start"} : rn_op' = op
  /\ rn_thread' = "call"
  /\ rn_calls' = rn_calls + 1
  /\ UNCHANGED <<rn_kind, rn_on, rn_isCapturing, rn_mutex, rn_cb, rn_peer, rn_host>>
  /\ UNCHANGED <<clientVars, winVars, legacyVars, videoEngVars, audioEngVars, packetVars, earlyUnitVars, platformVars, bindingVars, deviceVars>>

\* MediaCaptureClient::startCapture / stopCapture entered on the capture
\* thread: both take captureMutex first
rn_client_enter ==
  /\ rn_thread = "call"
  /\ rn_kind = "MediaCaptureClient"
  /\ rn_mutex = "free"
  /\ IF rn_op = "stop" /\ rn_isCapturing
       THEN /\ rn_isCapturing' = FALSE
            /\ rn_mutex' = "thread"
            /\ rn_thread' = IF rn_on = "video" THEN "join_peer" ELSE "join_self"
       ELSE /\ rn_thread' = "returned"
            /\ UNCHANGED <<rn_isCapturing, rn_mutex>>
  /\ UNCHANGED <<rn_kind, rn_on, rn_cb, rn_op, rn_peer, rn_host, rn_calls>>
  /\ UNCHANGED <<clientVars, winVars, legacyVars, videoEngVars, audioEngVars, packetVars, earlyUnitVars, platformVars, bindingVars, deviceVars>>

\* MediaCaptureWin::startCapture takes no lock; stopCapture returns early
\* when nothing is in progress and otherwise locks captureMutex, which the
\* worker already owns inside a frame callback: locking a std::mutex the
\* thread owns is undefined, it blocks or terminates
rn_win_enter ==
  /\ rn_thread = "call"
  /\ rn_kind = "MediaCaptureWin"
  /\ IF rn_op = "start" \/ ~rn_isCapturing
       THEN /\ rn_thread' = "returned"
            /\ UNCHANGED rn_isCapturing
       ELSE IF rn_mutex = "thread"
         THEN /\ rn_thread' \in {"blocked", "terminated"}
              /\ UNCHANGED rn_isCapturing
         ELSE /\ rn_isCapturing' = FALSE
              /\ rn_thread' = "join_self"
  /\ UNCHANGED <<rn_kind, rn_on, rn_mutex, rn_cb, rn_op, rn_peer, rn_host, rn_calls>>
  /\ UNCHANGED <<clientVars, winVars, legacyVars, videoEngVars, audioEngVars, packetVars, earlyUnitVars, platformVars, bindingVars, deviceVars>>

\* the other engine's thread sees the cleared flag and finishes
rn_peer_exit ==
  /\ rn_peer = "running"
  /\ ~rn_isCapturing
  /\ rn_thread # "terminated"
  /\ rn_peer' = "done"
  /\ UNCHANGED <<rn_kind, rn_on, rn_isCapturing, rn_mutex, rn_thread, rn_cb, rn_op, rn_host, rn_calls>>
  /\ UNCHANGED <<clientVars, winVars, legacyVars, videoEngVars, audioEngVars, packetVars, earlyUnitVars, platformVars, bindingVars, deviceVars>>

\* MediaCaptureClient::stopCapture on the video thread: audioImpl->stop()
\* joins the audio thread first
rn_join_peer ==
  /\ rn_thread = "join_peer"
  /\ rn_peer = "done"
  /\ rn_peer' = "joined"
  /\ rn_thread' = "join_self"
  /\ UNCHANGED <<rn_kind, rn_on, rn_isCapturing, rn_mutex, rn_cb, rn_op, rn_host, rn_calls>>
  /\ UNCHANGED <<clientVars, winVars, legacyVars, videoEngVars, audioEngVars, packetVars, earlyUnitVars, platformVars, bindingVars, deviceVars>>

\* captureThread->join() executed by the capture thread itself
rn_join_self ==
  /\ rn_thread = "join_self"
  /\ rn_thread' = JoinSelf
  /\ rn_mutex' = "free"
  /\ UNCHANGED <<rn_kind, rn_on, rn_isCapturing, rn_cb, rn_op, rn_peer, rn_host, rn_calls>>
  /\ UNCHANGED <<clientVars, winVars, legacyVars, videoEngVars, audioEngVars, packetVars, earlyUnitVars, platformVars, bindingVars, deviceVars>>

\* the callback returns to the capture thread: a frame callback goes back
\* to the loop; after an exit callback MediaCaptureWin's worker clears the
\* flag and ends, an engine's thread breaks out of its loop or carries on
rn_callback_returns ==
  /\ rn_thread \in {"callback", "returned"}
  /\ rn_thread' \in IF rn_cb = "frame" THEN {"loop"}
                    ELSE IF rn_kind = "MediaCaptureWin" THEN {"done"}
                    ELSE {"loop", "done"}
  /\ rn_isCapturing' = IF rn_cb = "exit" /\ rn_kind = "MediaCaptureWin"
                         THEN FALSE ELSE rn_isCapturing
  /\ rn_mutex' = IF rn_mutex = "thread" THEN "free" ELSE rn_mutex
  /\ rn_cb' = "none"
  /\ rn_op' = "none"
  /\ UNCHANGED <<rn_kind, rn_on, rn_peer, rn_host, rn_calls>>
  /\ UNCHANGED <<clientVars, winVars, legacyVars, videoEngVars, audioEngVars, packetVars, earlyUnitVars, platformVars, bindingVars, deviceVars>>

\* the loop condition sees the cleared flag
rn_loop_exit ==
  /\ rn_thread = "loop"
  /\ ~rn_isCapturing
  /\ rn_thread' = "done"
  /\ UNCHANGED <<rn_kind, rn_on, rn_isCapturing, rn_mutex, rn_cb, rn_op, rn_peer, rn_host, rn_calls>>
  /\ UNCHANGED <<clientVars, winVars, legacyVars, videoEngVars, audioEngVars, packetVars, earlyUnitVars, platformVars, bindingVars, deviceVars>>

\* stopCapture on the host's thread: MediaCaptureClient keeps captureMutex
\* until the joins are over, MediaCaptureWin only while it clears the flag
rn_host_stop ==
  /\ rn_host = "idle"
  /\ rn_kind # "none"
  /\ rn_thread # "terminated"
  /\ rn_mutex = "free"
  /\ IF rn_isCapturing
       THEN /\ rn_isCapturing' = FALSE
            /\ rn_host' = "joining"
            /\ rn_mutex' = IF rn_kind = "MediaCaptureClient" THEN "host" ELSE rn_mutex
       ELSE /\ rn_host' = "returned"
            /\ UNCHANGED <<rn_isCapturing, rn_mutex>>
  /\ UNCHANGED <<rn_kind, rn_on, rn_thread, rn_cb, rn_op, rn_peer, rn_calls>>
  /\ UNCHANGED <<clientVars, winVars, legacyVars, videoEngVars, audioEngVars, packetVars, earlyUnitVars, platformVars, bindingVars, deviceVars>>

rn_host_joined ==
  /\ rn_host = "joining"
  /\ rn_thread = "done"
  /\ rn_peer \in {"none", "done"}
  /\ rn_host' = "returned"
  /\ rn_peer' = IF rn_peer = "done" THEN "joined" ELSE rn_peer
  /\ rn_mutex' = "free"
  /\ UNCHANGED <<rn_kind, rn_on, rn_isCapturing, rn_thread, rn_cb, rn_op, rn_calls>>
  /\ UNCHANGED <<clientVars, winVars, legacyVars, videoEngVars, audioEngVars, packetVars, earlyUnitVars, platformVars, bindingVars, deviceVars>>

ReentrantThread ==
  \/ rn_callback
  \/ rn_call
  \/ rn_client_enter
  \/ rn_win_enter
  \/ rn_join_peer
  \/ rn_join_self
  \/ rn_callback_returns
  \/ rn_loop_exit

ReentrantHost ==
  \/ rn_host_stop
  \/ rn_host_joined

ReentrantNext ==
  \/ rn_start
  \/ ReentrantThread
  \/ rn_peer_exit
  \/ ReentrantHost

\* ------------------------------------------------------------ device buffers and frames
\* The audio thread's GetBuffer / ReleaseBuffer on the capture client and
\* the video threads' AcquireNextFrame / ReleaseFrame on the output
\* duplication.  held counts what the thread has acquired and not given
\* back, rel the release calls since the last successful acquisition, n the
\* successful acquisitions so far.

MaxAcquired == 2

DeviceIdle == [pc |-> "top", held |-> 0, rel |-> 0, n |-> 0, path |-> "none"]

DeviceInit ==
  /\ dv_isCapturing = TRUE
  /\ dv_audio = DeviceIdle
  /\ dv_video = DeviceIdle
  /\ dv_screen = DeviceIdle

GetBuffer(b) == [b EXCEPT !.held = @ + 1, !.rel = 0, !.n = @ + 1]

ReleaseBuffer(b) == [b EXCEPT !.held = @ - 1, !.rel = @ + 1]

AcquireNextFrame(f) == [f EXCEPT !.held = @ + 1, !.rel = 0, !.n = @ + 1]

ReleaseFrame_skipped(f) == f

ReleaseFrame(f) == [f EXCEPT !.held = @ - 1, !.rel = @ + 1]

At(d, where) == [d EXCEPT !.pc = where]

Took(d, path) == [d EXCEPT !.path = path]

\* the device has more to give while the bound on acquisitions allows
MoreData(d) == IF d.n < MaxAcquired THEN BOOLEAN ELSE {FALSE}

\* stop() clears the flag the three loops test
dv_stop ==
  /\ dv_isCapturing
  /\ dv_isCapturing' = FALSE
  /\ UNCHANGED <<dv_audio, dv_video, dv_screen>>
  /\ UNCHANGED <<clientVars, winVars, legacyVars, videoEngVars, audioEngVars, packetVars, earlyUnitVars, platformVars, bindingVars, reentrantVars>>

\* AudioCaptureImpl::captureThreadProc: while (isCapturing.load())
dv_audio_top ==
  /\ dv_audio.pc = "top"
  /\ dv_audio' = At(dv_audio, IF dv_isCapturing THEN "wait" ELSE "done")
  /\ UNCHANGED <<dv_isCapturing, dv_video, dv_screen>>
  /\ UNCHANGED <<clientVars, winVars, legacyVars, videoEngVars, audioEngVars, packetVars, earlyUnitVars, platformVars, bindingVars, reentrantVars>>

\* WaitForSingleObject(hEvent), then GetNextPacketSize
dv_audio_wait ==
  /\ dv_audio.pc = "wait"
  /\ \E waited \in BOOLEAN, sized \in BOOLEAN, more \in MoreData(dv_audio) :
       dv_audio' = At(dv_audio, IF ~waited \/ ~sized THEN "done"
                                ELSE IF more THEN "get" ELSE "top")
  /\ UNCHANGED <<dv_isCapturing, dv_video, dv_screen>>
  /\ UNCHANGED <<clientVars, winVars, legacyVars, videoEngVars, audioEngVars, packetVars, earlyUnitVars, platformVars, bindingVars, reentrantVars>>

\* GetBuffer: a failure leaves the packet loop
dv_audio_get ==
  /\ dv_audio.pc = "get"
  /\ \E ok \in BOOLEAN :
       dv_audio' = IF ok THEN At(GetBuffer(dv_audio), "packet")
                         ELSE At(dv_audio, "top")
  /\ UNCHANGED <<dv_isCapturing, dv_video, dv_screen>>
  /\ UNCHANGED <<clientVars, winVars, legacyVars, videoEngVars, audioEngVars, packetVars, earlyUnitVars, platformVars, bindingVars, reentrantVars>>

\* the packet: skipped when silent or empty, else converted, resampled when
\* the rates differ, and delivered; a resampling error is reported and the
\* packet dropped.  Every path continues at ReleaseBuffer.
dv_audio_packet ==
  /\ dv_audio.pc = "packet"
  /\ \E silent \in BOOLEAN, resample \in BOOLEAN, error \in BOOLEAN :
       dv_audio' = At(Took(dv_audio,
                        IF silent THEN "silent"
                        ELSE IF resample /\ error THEN "resampleError"
                        ELSE "delivered"), "release")
  /\ UNCHANGED <<dv_isCapturing, dv_video, dv_screen>>
  /\ UNCHANGED <<clientVars, winVars, legacyVars, videoEngVars, audioEngVars, packetVars, earlyUnitVars, platformVars, bindingVars, reentrantVars>>

\* ReleaseBuffer, then GetNextPacketSize for the next round
dv_audio_release ==
  /\ dv_audio.pc = "release"
  /\ \E released \in BOOLEAN, sized \in BOOLEAN, more \in MoreData(dv_audio) :
       dv_audio' = At(ReleaseBuffer(dv_audio),
                      IF released /\ sized /\ more THEN "get" ELSE "top")
  /\ UNCHANGED <<dv_isCapturing, dv_video, dv_screen>>
  /\ UNCHANGED <<clientVars, winVars, legacyVars, videoEngVars, audioEngVars, packetVars, earlyUnitVars, platformVars, bindingVars, reentrantVars>>

\* VideoCaptureImpl::captureFrame up to AcquireNextFrame
dv_video_acquire ==
  /\ dv_video.pc = "top"
  /\ IF ~dv_isCapturing
       THEN dv_video' = At(dv_video, "done")
       ELSE \E hr \in {"timeout", "failed"} \cup {"ok" : m \in MoreData(dv_video) \ {FALSE}} :
              dv_video' = IF hr = "ok" THEN At(AcquireNextFrame(dv_video), "acquired")
                                       ELSE Took(dv_video, hr)
  /\ UNCHANGED <<dv_isCapturing, dv_audio, dv_screen>>
  /\ UNCHANGED <<clientVars, winVars, legacyVars, videoEngVars, audioEngVars, packetVars, earlyUnitVars, platformVars, bindingVars, reentrantVars>>

\* QueryInterface for the texture: on failure ReleaseFrame and return, on
\* success CopyResource, Release, ReleaseFrame
dv_video_copy ==
  /\ dv_video.pc = "acquired"
  /\ \E queried \in BOOLEAN :
       dv_video' = At(Took(ReleaseFrame(dv_video),
                           IF queried THEN "copied" ELSE "queryFailed"), "top")
  /\ UNCHANGED <<dv_isCapturing, dv_audio, dv_screen>>
  /\ UNCHANGED <<clientVars, winVars, legacyVars, videoEngVars, audioEngVars, packetVars, earlyUnitVars, platformVars, bindingVars, reentrantVars>>

\* MediaCaptureWin's CaptureScreen up to AcquireNextFrame(500)
dv_screen_acquire ==
  /\ dv_screen.pc = "top"
  /\ IF ~dv_isCapturing
       THEN dv_screen' = At(dv_screen, "done")
       ELSE \E hr \in {"timeout", "failed"} \cup {"ok" : m \in MoreData(dv_screen) \ {FALSE}} :
              dv_screen' = IF hr = "ok" THEN At(AcquireNextFrame(dv_screen), "acquired")
                                        ELSE Took(dv_screen, hr)
  /\ UNCHANGED <<dv_isCapturing, dv_audio, dv_video>>
  /\ UNCHANGED <<clientVars, winVars, legacyVars, videoEngVars, audioEngVars, packetVars, earlyUnitVars, platformVars, bindingVars, reentrantVars>>

\* QueryInterface, CreateTexture2D for the staging texture, Map: the first
\* that fails releases the frame and returns false; after the copy the
\* frame is released and true returned
dv_screen_copy ==
  /\ dv_screen.pc = "acquired"
  /\ \E queried \in BOOLEAN, created \in BOOLEAN, mapped \in BOOLEAN :
       dv_screen' = At(Took(ReleaseFrame(dv_screen),
                            IF ~queried THEN "queryFailed"
                            ELSE IF ~created THEN "createFailed"
                            ELSE IF ~mapped THEN "mapFailed"
                            ELSE "copied"), "top")
  /\ UNCHANGED <<dv_isCapturing, dv_audio, dv_video>>
  /\ UNCHANGED <<clientVars, winVars, legacyVars, videoEngVars, audioEngVars, packetVars, earlyUnitVars, platformVars, bindingVars, reentrantVars>>

DeviceNext ==
  \/ dv_stop
  \/ dv_audio_top
  \/ dv_audio_wait
  \/ dv_audio_get
  \/ dv_audio_packet
  \/ dv_audio_release
  \/ dv_video_acquire
  \/ dv_video_copy
  \/ dv_screen_acquire
  \/ dv_screen_copy

\* ------------------------------------------------------------ specification
LateInit == PlatformInit /\ BindingInit /\ ReentrantInit /\ DeviceInit

Init ==
  /\ ClientInit /\ WinInit /\ LegacyInit /\ VideoEngInit /\ AudioEngInit
  /\ PacketInit /\ FrameInit /\ TargetInit /\ HandoffInit /\ WindowInit
  /\ DrainInit /\ TimeoutInit /\ LateInit

CallerStep(c) ==
  \/ startCapture_lock(c)
  \/ startCapture_check(c)
  \/ startCapture_audio(c)
  \/ startCapture_video(c)
  \/ startCapture_finish(c)
  \/ stopCapture_lock(c)
  \/ stopCapture_check(c)
  \/ stopCapture_audio_flag(c)
  \/ stopCapture_audio_event(c)
  \/ stopCapture_audio_join(c)
  \/ stopCapture_audio_release(c)
  \/ stopCapture_audio_reset(c)
  \/ stopCapture_video_flag(c)
  \/ stopCapture_video_join(c)
  \/ stopCapture_video_cleanup(c)
  \/ stopCapture_video_reset(c)
  \/ stopCapture_callback(c)

AudioThread == audio_top \/ audio_wait \/ audio_size \/ audio_buffer \/ audio_release \/ audio_next

VideoThread == video_top \/ video_capture \/ video_process \/ video_encode

Next ==
  \/ \E c \in Callers : CallerStep(c)
  \/ AudioThread
  \/ VideoThread
  \/ DeviceSignal

Spec == Init /\ [][Next]_vars


\* fair scheduling: every capture thread and every call in progress keeps
\* running; nothing obliges the host to make a new call or the device to signal
CallerProgress(c) ==
  \/ startCapture_check(c)
  \/ startCapture_audio(c)
  \/ startCapture_video(c)
  \/ startCapture_finish(c)
  \/ stopCapture_check(c)
  \/ stopCapture_audio_flag(c)
  \/ stopCapture_audio_event(c)
  \/ stopCapture_audio_join(c)
  \/ stopCapture_audio_release(c)
  \/ stopCapture_audio_reset(c)
  \/ stopCapture_video_flag(c)
  \/ stopCapture_video_join(c)
  \/ stopCapture_video_cleanup(c)
  \/ stopCapture_video_reset(c)
  \/ stopCapture_callback(c)

FairSpec ==
  /\ Init /\ [][Next]_vars
  /\ WF_vars(AudioThread)
  /\ WF_vars(VideoThread)
  /\ \A c \in Callers : WF_vars(CallerProgress(c))

\* MediaCaptureWin driven by concurrent host threads
SpecWin == Init /\ [][WinNext]_vars

\* AudioCaptureClient under fair scheduling: its worker thread and a stopCapture
\* in progress keep running; nothing obliges the host to call, or the device to
\* raise its readiness event
FairSpecLegacy ==
  /\ Init /\ [][LegacyNext]_vars
  /\ WF_vars(LegacyWorker)
  /\ WF_vars(LegacyCallerProgress)

\* one VideoCaptureImpl and its clock
SpecVideoEng == Init /\ [][VideoEngNext]_vars

\* the same with its capture thread scheduled fairly; nothing obliges the host
\* to stop or destroy the engine
FairSpecVideoEng == Init /\ [][VideoEngNext]_vars /\ WF_vars(VideoEngThread)

\* one AudioCaptureImpl and its handles
SpecAudioEng == Init /\ [][AudioEngNext]_vars

\* the conversion of audio packets, for every first packet of every stream
InitPacket ==
  /\ ClientInit /\ WinInit /\ LegacyInit /\ VideoEngInit /\ AudioEngInit
  /\ FrameInit /\ TargetInit /\ HandoffInit /\ WindowInit /\ DrainInit
  /\ TimeoutInit /\ LateInit
  /\ pk_in \in Packets
  /\ pk_out = NoOut

SpecPacket == InitPacket /\ [][PacketNext]_vars

\* one frame of every picture under every video configuration
InitFrame ==
  /\ ClientInit /\ WinInit /\ LegacyInit /\ VideoEngInit /\ AudioEngInit
  /\ PacketInit /\ TargetInit /\ HandoffInit /\ WindowInit /\ DrainInit
  /\ TimeoutInit /\ LateInit
  /\ fr_config \in VideoConfigs
  /\ fr_frame \in CapturedFrames
  /\ fr_out = NoFrameOut

SpecFrame == InitFrame /\ [][FrameNext]_vars

\* the target of every combination of selectors
InitTarget ==
  /\ ClientInit /\ WinInit /\ LegacyInit /\ VideoEngInit /\ AudioEngInit
  /\ PacketInit /\ FrameInit /\ HandoffInit /\ WindowInit /\ DrainInit
  /\ TimeoutInit /\ LateInit
  /\ tg_config \in TargetConfigs
  /\ tg_out = NoTarget

SpecTarget == InitTarget /\ [][TargetNext]_vars

\* the frames of both engines on their way to the consumer
SpecHandoff == Init /\ [][HandoffNext]_vars

\* the enumeration of every kind of window
InitWindow ==
  /\ ClientInit /\ WinInit /\ LegacyInit /\ VideoEngInit /\ AudioEngInit
  /\ PacketInit /\ FrameInit /\ TargetInit /\ HandoffInit /\ DrainInit
  /\ TimeoutInit /\ LateInit
  /\ wn_window \in DesktopWindows
  /\ wn_out = NoWindowOut

SpecWindow == InitWindow /\ [][WindowNext]_vars

\* one wake-up of either audio thread, for every list of pending packets
InitDrain ==
  /\ ClientInit /\ WinInit /\ LegacyInit /\ VideoEngInit /\ AudioEngInit
  /\ PacketInit /\ FrameInit /\ TargetInit /\ HandoffInit /\ WindowInit
  /\ TimeoutInit /\ LateInit
  /\ dr_engine \in AudioThreads
  /\ dr_resample \in BOOLEAN
  /\ dr_pending \in PendingLists
  /\ dr_pc = "wait"
  /\ dr_calls = 0

SpecDrain == InitDrain /\ [][DrainNext]_vars

\* the acquisition timeout of every frame rate
InitTimeout ==
  /\ ClientInit /\ WinInit /\ LegacyInit /\ VideoEngInit /\ AudioEngInit
  /\ PacketInit /\ FrameInit /\ TargetInit /\ HandoffInit /\ WindowInit
  /\ DrainInit /\ LateInit
  /\ tm_rate \in FloatRates
  /\ tm_out = NoTimeout

SpecTimeout == InitTimeout /\ [][TimeoutNext]_vars

\* the COM calls and the device setup of one instance of each engine
SpecPlatform == Init /\ [][PlatformNext]_vars

\* the binding over either session class
SpecBinding == Init /\ [][BindingNext]_vars

SpecReentrant == Init /\ [][ReentrantNext]_vars

FairSpecReentrant ==
  /\ SpecReentrant
  /\ WF_vars(ReentrantThread)
  /\ WF_vars(rn_peer_exit)
  /\ WF_vars(ReentrantHost)

SpecDevice == Init /\ [][DeviceNext]_vars

\* ------------------------------------------------------------------ claims
AudioAlive == aPc \notin {"none", "done"}
VideoAlive == vPc \notin {"none", "done"}
FrameEvents == {"audioFrame", "videoFrame"}

\* C1: a start() that finds the session running fails with the "already in
\* progress" error and leaves the running flag, both engines and both capture
\* threads exactly as they were.
C1_AlreadyRunningChangesNothing ==
  [][\A c \in Callers :
       (pc[c] = "start_check" /\ isCapturing /\ pc'[c] # pc[c])
         => /\ pc'[c] = "idle"
            /\ lastRet' = "false"
            /\ event' = "exitAlready"
            /\ UNCHANGED <<isCapturing, audioImpl, videoImpl, aPc, vPc, devPackets>>]_vars

C1_Witness ==
  /\ event = "exitAlready"
  /\ isCapturing
  /\ AudioAlive \/ VideoAlive

\* C2: start() returns success and marks the session running if and only if
\* at least one sub-engine actually started.
C2_SuccessIffEngineStarted ==
  [][\A c \in Callers :
       (pc[c] = "start_finish" /\ pc'[c] = "idle")
         => /\ (lastRet' = "true") <=> (call[c].audioStarted \/ call[c].videoStarted)
            /\ isCapturing' <=> (call[c].audioStarted \/ call[c].videoStarted)]_vars

\* C3: once the onStopped callback of a stop() has fired, no audio or video
\* frame callback is invoked (until a later start() launches an engine).
C3_StopIsBarrier ==
  [][barrier => event' \notin FrameEvents]_vars

C3_Witness ==
  /\ barrier
  /\ event = "stopped"
  /\ lastRet = "stop:done"

\* C4: stop() is idempotent: a stop() on a session that is not running returns
\* at once, changing neither the session flag nor the engines nor the threads,
\* and every stop() fires its own callback exactly once, as it returns.
C4_StopIdempotent ==
  [][\A c \in Callers :
       /\ (pc[c] = "stop_check" /\ ~isCapturing /\ pc'[c] # pc[c])
            => /\ pc'[c] = "idle"
               /\ lastRet' = "stop:notRunning"
               /\ UNCHANGED <<isCapturing, audioImpl, videoImpl, aPc, vPc, devPackets>>
       /\ (call[c].op = "stop" /\ call[c].stopCallback /\ pc[c] # "idle" /\ pc'[c] = "idle")
            => event' = "stopped"
       /\ (call[c].op = "stop" /\ pc[c] # "idle" /\ pc'[c] # "idle")
            => event' # "stopped"]_vars

C4_Witness ==
  /\ event = "stopped"
  /\ lastRet = "stop:notRunning"
  /\ ~audioImpl.exists

\* a stopCapture of the audio-only client is waiting for the worker thread
LegacyStopPending == legacy_pc = "stop_join"

\* C5: stop() always terminates: under fair scheduling a stop() on a running
\* engine eventually returns, even if the device never raises its readiness
\* event again (unless a device failure has aborted the process).
C5_StopTerminates ==
  LegacyStopPending ~> (legacy_pc = "idle" \/ legacy_worker = "aborted")

\* C6: a capture thread that is still running always finds its engine and
\* every handle it reads unreleased, and onStopped of a full stop() fires only
\* after both threads are joined and both engines are released.
C6_NoUseAfterRelease ==
  /\ AudioAlive => /\ audioImpl.exists
                   /\ AudioReleasedByStop \subseteq audioImpl.held
                   /\ audioImpl.hEvent \in {"nonsignaled", "signaled"}
  /\ VideoAlive => /\ videoImpl.exists
                   /\ videoImpl.held = VideoHandles
  /\ (event = "stopped" /\ lastRet = "stop:done")
       => /\ aPc = "none" /\ vPc = "none"
          /\ ~audioImpl.exists /\ ~videoImpl.exists

C6_Witness ==
  \E c \in Callers :
    /\ pc[c] = "stop_video_cleanup"
    /\ videoImpl.held = VideoHandles
    /\ ~videoImpl.captureThread
    /\ vPc = "none"
    /\ ~audioImpl.exists

\* the capture threads of one MediaCaptureWin session that are running
WinWorkersAlive == {t \in WinThreads : win_threads[t] \notin {"none", "done"}}

\* C7: concurrent start()/stop() calls on one session do not race: at no time
\* do two capture threads exist for the same session.
C7_AtMostOneCaptureThread == Cardinality(WinWorkersAlive) <= 1

\* the audio thread has left its loop on a fatal error it reported
FatalAudioExit == aPc = "done" /\ audioImpl.isCapturing /\ audioImpl.exits > 0

\* C8: after a running engine has reported a fatal error through onExit, the
\* session becomes Idle by itself, without an explicit stop().
C8_ExitPropagation == FatalAudioExit ~> ~isCapturing

\* C9: the exit callback is invoked at most once per engine instance.
C9_ExitAtMostOnce ==
  /\ audioImpl.exits <= 1
  /\ videoImpl.exits <= 1

\* C10: once onExit has fired for an engine, that engine's frame callback is
\* never invoked again.
C10_NoFrameAfterExit ==
  [][/\ audioImpl.exits > 0 => event' # "audioFrame"
     /\ videoImpl.exits > 0 => event' # "videoFrame"]_vars

\* C11: a session is never silently hung.  Once the display is lost for good
\* (every later acquisition fails, and not with a timeout) while the video
\* capture thread is alive, the exit callback is eventually invoked, unless the
\* host stops or destroys the engine: the thread never runs on forever with no
\* frame, no exit and no stop notification.
C11_NeverSilentlyHung ==
  (ve_source = "broken" /\ VideoEngAlive)
    ~> (ve_obs.exits > 0 \/ ve_obs.stops > 0 \/ ~VideoEngAlive)

\* C12: configuration errors prevent any thread from launching.  A start()
\* that is given an audio callback together with an audio channel count
\* outside {1,2} or a sample rate that is not positive returns false, and
\* neither the audio nor the video capture thread was created by that call.
C12_ConfigErrorsLaunchNoThread ==
  [][\A c \in Callers :
       (/\ pc[c] = "start_finish" /\ pc'[c] = "idle"
        /\ call[c].audioCallback
        /\ ~AudioConfigValid(call[c].config))
         => /\ lastRet' = "false"
            /\ ~call[c].audioStarted
            /\ ~call[c].videoStarted]_vars

\* C13: an audio engine started with a channel count outside {1,2} or a
\* sample rate that is not positive fails before anything is touched: the
\* running flag stays false and no thread is started.
C13_InvalidConfigTouchesNothing ==
  (legacy_cc.channels \notin {1, 2} \/ legacy_cc.sampleRate <= 0)
    => (~legacy_captureInProgress /\ legacy_worker = "none")

\* C14: a start() with displayID = 0 and windowID = 0 fails and opens nothing,
\* whichever callbacks are supplied: it returns false, no engine is started
\* by it, and no engine holds a platform handle when it returns.
C14_NoTargetTouchesNothing ==
  [][\A c \in Callers :
       (/\ pc[c] = "start_finish" /\ pc'[c] = "idle"
        /\ call[c].config.displayID = 0
        /\ call[c].config.windowID = 0)
         => /\ lastRet' = "false"
            /\ ~call[c].audioStarted /\ ~call[c].videoStarted
            /\ audioImpl.held = {} /\ audioImpl.hEvent = "NULL"
            /\ videoImpl.held = {}]_vars

\* C15: handles are released exactly once and never leaked.  When an audio
\* engine is destroyed, whether its start failed part-way, succeeded, or was
\* followed by any number of stops, it holds no handle any more; and no
\* handle is ever released twice.  The same for a video engine.
C15_HandlesReleasedOnce ==
  /\ ae_life = "destroyed" =>
        (ae_impl.held = {} /\ ae_impl.hEvent \in {"NULL", "closed"})
  /\ \A h \in AudioHandles : ae_freed[h] <= 1
  /\ ve_host = "destroyed" => ve_held = {}

\* C16: every delivered audio frame is in the caller's target format: the
\* reported channel count is config.audioChannels, the reported rate is
\* config.audioSampleRate, and the delivered buffer holds channels x frames
\* samples, for every native channel count and rate.
C16_DeliveredInTargetFormat ==
  pk_out.delivered =>
    /\ pk_out.channels = pk_in.audioChannels
    /\ pk_out.sampleRate = pk_in.audioSampleRate
    /\ pk_out.holds = pk_out.channels * pk_out.frames

MeanOfFrames(mono, p) ==
  /\ Len(mono) = p.numFramesInPacket
  /\ \A i \in 1..p.numFramesInPacket :
       mono[i] * p.nChannels =
         SumTo(p.audioBufferOriginal, (i - 1) * p.nChannels + 1, p.nChannels)

\* C17: when one output channel is requested and the device has n > 1
\* channels, each output sample is the arithmetic mean of its frame's n native
\* samples, the number of frames is unchanged, and it is the downmixed buffer
\* that the resampler is given.
C17_DownmixIsMean ==
  (pk_out # NoOut /\ pk_in.audioChannels = 1 /\ pk_in.nChannels > 1) =>
    /\ MeanOfFrames(pk_out.converted, pk_in)
    /\ pk_out.resampled =>
          (pk_out.srcIn = pk_out.converted /\ pk_out.srcReads = pk_in.numFramesInPacket)
    /\ pk_in.nChannels = 2 => MeanOfFrames(pk_out.legacyMono, pk_in)

C17_Witness ==
  /\ pk_in.nChannels = 2 /\ pk_in.audioChannels = 1
  /\ pk_in.audioBufferOriginal = <<6, 0 - 6>>
  /\ pk_out.delivered
  /\ pk_out.converted = <<0>>
  /\ pk_out.legacyMono = <<0>>

\* C18: when the native rate equals the target rate the resampler is not
\* invoked, and what is delivered is the input chunk, downmixed if one channel
\* was requested of a multi-channel device, with its frame count unchanged.
C18_NoResamplePassthrough ==
  (pk_out # NoOut /\ pk_in.nSamplesPerSec = pk_in.audioSampleRate) =>
    /\ ~pk_out.resampled
    /\ pk_out.delivered
    /\ pk_out.frames = pk_in.numFramesInPacket
    /\ pk_out.sampleRate = pk_in.audioSampleRate
    /\ IF pk_in.audioChannels = 1 /\ pk_in.nChannels > 1
         THEN MeanOfFrames(pk_out.buffer, pk_in)
         ELSE pk_out.buffer = pk_in.audioBufferOriginal

C18_Witness ==
  /\ pk_in.nChannels = 1 /\ pk_in.audioChannels = 1
  /\ pk_in.nSamplesPerSec = 48000 /\ pk_in.audioSampleRate = 48000
  /\ pk_in.numFramesInPacket = 2
  /\ pk_out.delivered
  /\ pk_out.buffer = pk_in.audioBufferOriginal
  /\ pk_out.frames = 2

\* the engine is capturing, its clock is followed and every captured frame
\* is encoded
VideoEngRunning ==
  ve_host = "started" /\ VideoEngAlive /\ Measured /\ ve_encoder = "ok"

\* C19: with a screen source that times out on every acquisition, at least
\* one (forced) frame is delivered within 2 x (1000 / frameRate) ms of the
\* capture thread starting, for every frame rate (encoding taken as instant).
C19_ForcedFrameWithinTwoIntervals ==
  (/\ VideoEngRunning
   /\ ve_source = "timeout"
   /\ ve_lastSuccessfulFrameTime = Epoch
   /\ ve_work = 0)
    => /\ ve_obs.frames = 0 =>
            (ve_now - ve_obs.threadStart) * EffectiveFrameRate(ve_frameRate) <= 2000
       /\ ve_obs.frames > 0 =>
            (ve_obs.firstFrame - ve_obs.threadStart) * EffectiveFrameRate(ve_frameRate) <= 2000

C21_QualityOverrideThenTier ==
  fr_out.engine = "VideoCaptureImpl" =>
    /\ fr_config.qualityValue > 0 =>
          fr_out.encoderQuality = fr_config.qualityValue
    /\ (fr_config.qualityValue <= 0 /\ fr_config.quality = 0) =>
          fr_out.encoderQuality = 95
    /\ (fr_config.qualityValue <= 0 /\ fr_config.quality = 1) =>
          fr_out.encoderQuality = 85
    /\ (fr_config.qualityValue <= 0 /\ fr_config.quality = 2) =>
          fr_out.encoderQuality = 75

\* C22: every delivered frame is in the configured image format: compressed
\* payload tagged "jpeg" when imageFormat = 0, the raw pixel buffer of
\* height x bytesPerRow bytes tagged raw when imageFormat = 1; the tag always
\* names what the payload is.
C22_FormatFollowsConfig ==
  fr_out.delivered =>
    /\ fr_out.format = fr_out.payload
    /\ fr_config.imageFormat = 0 => fr_out.payload = "jpeg"
    /\ fr_config.imageFormat = 1 =>
          /\ fr_out.payload = "bgra"
          /\ fr_out.size = fr_frame.height * fr_frame.bytesPerRow

\* C23: when several selectors are set the target is chosen by the priority
\* device (bundle) id > window id > display id; in particular with windowID
\* and displayID both non-zero the window is resolved and captured, not the
\* display.
C23_SelectorPriority ==
  tg_out.ok =>
    /\ (tg_config.windowID # 0 /\ tg_config.displayID # 0) =>
          /\ tg_out.selector # "display"
          /\ tg_out.window = tg_config.windowID
    /\ (tg_config.bundleID # "null" /\ tg_out.engine = "MediaCaptureWin") =>
          tg_out.selector = "bundle"

\* C24: within one engine the consumer receives frames in the order they
\* were captured: frames may be dropped, but a frame captured earlier is never
\* emitted, or queued, after one captured later.
C24_FifoPerEngine ==
  \A e \in Engines :
    LET all == hq_emitted[e] \o hq_queue[e]
    IN  \A i, j \in 1..Len(all) : i < j => all[i] < all[j]

\* frames 1 and 3 of the video engine have been emitted, frame 2 was dropped
C24_Witness ==
  /\ hq_emitted["video"] = <<1, 3>>
  /\ Len(hq_emitted["audio"]) >= 2

\* C25: audio and video capture do not block on each other: while the video
\* side is acquiring or delivering a frame the audio drain/deliver step
\* remains enabled, and while audio is drained the video step remains
\* enabled.
C25_AudioVideoIndependent ==
  \A t \in WinThreads :
    /\ (WinAlive /\ win_threads[t] = "video") =>
          ENABLED (\E u \in WinThreads : win_worker_audio(u))
    /\ (WinAlive /\ win_threads[t] = "audio") =>
          ENABLED (\E u \in WinThreads : win_worker_video(u))

\* C26: window enumeration leaves out every window that is not visible, is
\* disabled, has zero or negative area or is smaller than 50 x 50 (so a
\* 30 x 30 window is left out), and lists an otherwise eligible 60 x 60
\* window.
C26_WindowFilter ==
  wn_out.by # "none" =>
    /\ (\/ ~wn_window.visible
         \/ ~wn_window.enabled
         \/ wn_window.width <= 0 \/ wn_window.height <= 0
         \/ wn_window.width < 50 \/ wn_window.height < 50) => ~wn_out.listed
    /\ (/\ wn_out.rectOk
        /\ wn_window = [visible |-> TRUE, enabled |-> TRUE, titled |-> TRUE,
                        child |-> FALSE, toolWindow |-> FALSE, width |-> 60,
                        height |-> 60]) => wn_out.listed

\* C27: cancellation is checked before every delivery: once stop() has
\* cleared the running flag of an engine, that engine's thread begins no
\* further frame callback; a thread woken from its wait by stop() delivers
\* nothing before it exits.
C27_NoDeliveryAfterFlagCleared ==
  [][/\ (AudioAlive /\ ~audioImpl.isCapturing) => event' # "audioFrame"
     /\ (VideoAlive /\ ~videoImpl.isCapturing) => event' # "videoFrame"]_vars

\* C28: each wake-up of the audio thread by the readiness signal results in
\* exactly one audio-callback invocation, whatever packets (none, one,
\* several, silent or not) the device has pending.
C28_OneFramePerDrainCycle ==
  dr_pc = "top" => dr_calls = 1

\* C29: after resampling N frames the length handed to the callback is the
\* count the resampler reported, which never exceeds
\* ceil(N x targetRate / nativeRate); the expected count is never passed as
\* the delivered length.
C29_ResampledCountIsReported ==
  /\ (pk_out.resampled /\ pk_out.delivered) =>
        /\ pk_out.frames = pk_out.srcGen
        /\ pk_out.frames * pk_in.nSamplesPerSec
             < pk_in.numFramesInPacket * pk_in.audioSampleRate + pk_in.nSamplesPerSec
  /\ (pk_out # NoOut /\ pk_in.nChannels = 2 /\ pk_in.audioChannels = 1) =>
        /\ pk_out.legacyFrames = pk_out.legacyGen
        /\ pk_out.legacyFrames * pk_in.nSamplesPerSec
             < pk_in.numFramesInPacket * pk_in.audioSampleRate + pk_in.nSamplesPerSec

\* two frames at 16 kHz resampled to 48 kHz: six frames expected, the
\* resampler reported four and four were delivered
C29_Witness ==
  /\ pk_in.nSamplesPerSec = 16000 /\ pk_in.audioSampleRate = 48000
  /\ pk_in.numFramesInPacket = 2
  /\ pk_out.resampled /\ pk_out.delivered
  /\ pk_out.srcGen = 4 /\ pk_out.frames = 4

\* C30 as stated: for every frame rate the acquisition timeout equals the
\* target interval in milliseconds clamped into [100, 500].
C30_TimeoutIsClampedInterval ==
  tm_out.started => tm_out.timeoutMs = Clamp(tm_out.interval)

\* C30: for every frame rate (<= 0, fractional, very large) the acquisition
\* timeout is never below 100 ms and never above 500 ms, and it is the
\* engine's frame interval clamped into [100, 500] or one millisecond less.
C30_TimeoutBounded ==
  tm_out.started =>
    /\ tm_out.timeoutMs >= 100
    /\ tm_out.timeoutMs <= 500
    /\ tm_out.timeoutMs <= Clamp(tm_out.interval)
    /\ tm_out.timeoutMs >= Clamp(tm_out.interval) - 1

\* frameRate 2.5: interval 400 ms and timeout 400 ms
C30_Witness ==
  /\ tm_rate = [num |-> 5, den |-> 2]
  /\ tm_out.started
  /\ tm_out.interval = 400
  /\ tm_out.timeoutMs = 400

\* C31: per-frame video errors are reported and survived.  A step of the
\* capture thread in which the acquisition fails with something other than a
\* timeout, or in which mapping or encoding the frame fails, while the engine
\* is capturing, invokes the exit callback and takes the thread back to the
\* top of its loop.
C31_FrameErrorsReportedAndSurvived ==
  [][(/\ ve_isCapturing
      /\ \/ ve_thread = "capture" /\ ve_source = "broken"
         \/ ve_thread = "process" /\ ve_encoder = "processFails"
         \/ ve_thread = "encode" /\ ve_encoder = "encodeFails"
      /\ ve_thread' # ve_thread)
       => (ve_thread' = "top" /\ ve_obs'.exits = 1)]_vars

\* the device setup s fell back exactly once
FellBackOnce(s) ==
  s.ran =>
    /\ s.attempts[1] = "HARDWARE"
    /\ (~s.works["HARDWARE"]) <=> (s.attempts = <<"HARDWARE", "WARP">>)
    /\ (~s.result) <=> (~s.works["HARDWARE"] /\ ~s.works["WARP"])
    /\ s.result => Cardinality(s.held) = 1

\* C32: device setup falls back exactly once.  The hardware device is tried
\* first; the software (WARP) device is tried, one time, exactly when the
\* hardware device failed; setup reports failure exactly when both failed;
\* and after a successful setup exactly one device context is held.  For the
\* device setup of VideoCaptureImpl and that of MediaCaptureWin.
C32_FallbackExactlyOnce ==
  FellBackOnce(pf_video.setup) /\ FellBackOnce(pf_win.setup)

\* C33: a host-initialised platform is left alone.  An AudioCaptureImpl or
\* VideoCaptureImpl whose configuration has isElectron = 1 makes no call of
\* CoInitializeEx and no call of CoUninitialize on any thread, in start, in
\* stop or in its destructor.
C33_HostInitialisedLeftAlone ==
  /\ pf_video.isElectron = 1 =>
       \A t \in PlatformThreads : pf_calls["VideoCaptureImpl"][t] = NoCalls
  /\ pf_audio.isElectron = 1 =>
       \A t \in PlatformThreads : pf_calls["AudioCaptureImpl"][t] = NoCalls

\* both engines were started with isElectron = 1 on a thread the host had
\* initialised; the video engine set its device up and has been destroyed,
\* the audio engine has been stopped, and the thread is as the host left it
C33_Witness ==
  /\ pf_video.isElectron = 1 /\ pf_video.setup.result /\ pf_video.life = "destroyed"
  /\ pf_audio.isElectron = 1 /\ pf_audio.life = "stopped"
  /\ pf_com["main"] = [mode |-> "STA", count |-> 1]
  /\ pf_calls["VideoCaptureImpl"]["main"] = NoCalls

\* the successful CoInitializeEx calls and the CoUninitialize calls made on
\* thread t by the engines whose isElectron flag is unset
ComCount(t, field) ==
  (IF pf_video.isElectron # 1 THEN pf_calls["VideoCaptureImpl"][t][field] ELSE 0)
  + (IF pf_audio.isElectron # 1 THEN pf_calls["AudioCaptureImpl"][t][field] ELSE 0)
  + (IF pf_win.isElectron # 1 THEN pf_calls["MediaCaptureWin"][t][field] ELSE 0)

AllDestroyed ==
  pf_video.life = "destroyed" /\ pf_audio.life = "destroyed" /\ pf_win.life = "destroyed"

\* C34: platform init and teardown are balanced.  With the host flag unset,
\* on every thread the CoUninitialize calls never outnumber the successful
\* CoInitializeEx calls made on that thread, and once every engine has been
\* stopped and destroyed the two counts are equal.
C34_ComBalanced ==
  \A t \in PlatformThreads :
    /\ ComCount(t, "uninit") <= ComCount(t, "init")
    /\ AllDestroyed => ComCount(t, "uninit") = ComCount(t, "init")

\* the exit callback was invoked inside the startCapture call of c: an engine
\* was asked for and its start() failed (every failing start() invokes the
\* exit callback before it returns)
ExitDuringStart(c) ==
  \/ call[c].audioCallback /\ ~call[c].audioStarted
  \/ /\ call[c].videoCallback
     /\ call[c].config.displayID > 0 \/ call[c].config.windowID > 0
     /\ ~call[c].videoStarted

\* C35: a successful start is silent on the exit path.  When startCapture
\* returns true, the exit callback has not been invoked during that call, in
\* particular not for a sub-engine that failed while the other one started.
C35_SuccessfulStartIsSilent ==
  [][\A c \in Callers :
       (pc[c] = "start_finish" /\ pc'[c] = "idle" /\ lastRet' = "true")
         => ~ExitDuringStart(c)]_vars

C37_EveryThreadJoinedOnce ==
  [][\A c \in Callers :
       /\ (win_pc[c] = "start_thread" /\ win_pc'[c] = "idle")
            => (win_captureThread = 0 /\ \A t \in WinThreads : win_threads[t] = "none")
       /\ win_pc'[c] # "crashed"]_vars

\* C38: a delivered video frame always carries captured content.  The video
\* thread hands an encoded frame to the video callback only if an acquisition
\* has copied a frame into the staging texture since start, which is when
\* lastSuccessfulFrameTime is set; a frame forced after a timeout is never
\* delivered from a staging texture that was never written.
C38_DeliveredFrameWasCaptured ==
  [][(ve_thread = "encode" /\ ve_encoder = "ok" /\ ve_thread' = "top")
       => ve_lastSuccessfulFrameTime # Epoch]_vars

\* C39: a stop() or start() that the host issues from inside a frame or exit
\* callback, on the capture thread itself, eventually returns to the callback.
C39_ReentrantCallReturns == (rn_thread = "call") ~> (rn_thread = "returned")

\* C40: every successful GetBuffer is followed by exactly one ReleaseBuffer
\* before the audio thread calls GetBuffer again or waits for readiness, on
\* the silent, resampling-error and delivery paths alike, and every
\* successful AcquireNextFrame by exactly one ReleaseFrame before the next
\* acquisition.
Settled(d) == d.held = 0 /\ (d.n > 0 => d.rel = 1)

C40_DeviceBufferProtocol ==
  /\ \A d \in {dv_audio, dv_video, dv_screen} : d.held \in {0, 1} /\ d.rel <= 1
  /\ dv_audio.pc \in {"top", "wait", "get", "done"} => Settled(dv_audio)
  /\ dv_video.pc \in {"top", "done"} => Settled(dv_video)
  /\ dv_screen.pc \in {"top", "done"} => Settled(dv_screen)

C40_Witness ==
  /\ dv_audio.n = MaxAcquired /\ dv_audio.pc = "top" /\ dv_audio.path = "resampleError"
  /\ dv_video.n = MaxAcquired /\ dv_video.pc = "top" /\ dv_video.path = "queryFailed"
  /\ dv_screen.n = MaxAcquired /\ dv_screen.pc = "top" /\ dv_screen.path = "mapFailed"

====
